---- MODULE Spec2Model ----
(***************************************************************************)
(* A model of the EXT2 shell of L33tSh4rk/EXT2-FileSystem: the allocator,  *)
(* the directory entry engine, the path resolver, the file reader and the  *)
(* commands touch, rm, mkdir, rmdir, rename and cd.                        *)
(*                                                                         *)
(* The volume is modelled at byte level: every block of the device is a    *)
(* sequence of tamanho_bloco bytes, bitmaps are read bit by bit, directory *)
(* entries and block pointers are decoded from little-endian bytes exactly *)
(* as the C code casts them.  Strings (names, paths, command arguments)    *)
(* are sequences of nonzero byte codes.                                    *)
(*                                                                         *)
(* Scale: the code derives the block size from the superblock as           *)
(* 1024 << log_block_size and counts inode.blocks in 512-byte sectors.     *)
(* The model keeps every formula of the code but runs it on a volume whose *)
(* byte unit is scaled by 16: blocks of 64 bytes, sectors of 32 bytes.     *)
(* The 8-byte entry header, the 4-byte alignment, the 4-byte pointers and  *)
(* the 12 direct slots are those of the code.                              *)
(***************************************************************************)
EXTENDS Integers, Sequences, FiniteSets, TLC

VARIABLES
  sb,         \* the in-memory superblock (main.c:81), written through on change
  gdt,        \* the in-memory group descriptor table (main.c:82)
  inodes,     \* the inode tables of the volume: inode number -> inode record
  disco,      \* the blocks of the volume: block number -> bytes
  dir_atual,  \* diretorio_atual_inode of the shell loop (main.c:111)
  ult,        \* the last operation: its name, argument and outcome
  par,        \* tracker of an operation followed at once by its inverse
  passos      \* the number of commands read so far

vars == <<sb, gdt, inodes, disco, dir_atual, ult, par, passos>>

\* The file system as one value: what every function of the code receives
\* through (fd, sb, gdt).
\* What a command sees: the volume and the clock.  The clock advances with
\* every command, so that a time written by a command differs from the times
\* written before it.
FS == [sb |-> sb, gdt |-> gdt, inodes |-> inodes, disco |-> disco, relogio |-> passos + 2]

-----------------------------------------------------------------------------
(* Constants of the code *)

EXT2_ROOT_INO == 2
EXT2_NAME_LEN == 255
EXT2_N_BLOCKS == 15
TAMANHO_CABECALHO_ENTRADA_DIR == 8
NUM_DIRETOS == 12
EXT2_S_IFMT == 61440
EXT2_S_IFREG == 32768
EXT2_S_IFDIR == 16384
EXT2_FT_REG_FILE == 1
EXT2_FT_DIR == 2
PERM_ARQUIVO == 420
PERM_DIRETORIO == 493
TAMANHO_PONTEIRO == 4
\* uint16 fields wrap at 2^16.  uint32 fields are kept as plain integers: the
\* code decrements the 32-bit counters only after testing them against zero,
\* and no volume of the model brings a 32-bit field near 2^32.
DOIS_16 == 65536

\* calcular_tamanho_do_bloco: 1024 << log_block_size in the code; the scaled
\* volume of the model has 64-byte blocks.
tamanho_bloco == 64
\* The sector in which inode.blocks is counted: 512 in the code, scaled with
\* the block so that a block is two sectors, as a 1024-byte block is.
TAMANHO_SETOR == 32

ponteiros_por_bloco == tamanho_bloco \div TAMANHO_PONTEIRO

\* time(NULL)
AGORA(fs) == fs.relogio

EXT2_IS_DIR(mode) == (mode \div 4096) % 16 = EXT2_S_IFDIR \div 4096
EXT2_IS_REG(mode) == (mode \div 4096) % 16 = EXT2_S_IFREG \div 4096

-----------------------------------------------------------------------------
(* Bytes *)

Min(a, b) == IF a < b THEN a ELSE b
Max(a, b) == IF a > b THEN a ELSE b

\* A little-endian uint16 / uint32 at byte offset o of buffer b (offsets from 0)
LerU16(b, o) == b[o + 1] + 256 * b[o + 2]
LerU32(b, o) == b[o + 1] + 256 * b[o + 2] + 65536 * b[o + 3] + 16777216 * b[o + 4]

BytesU16(v) == <<v % 256, (v \div 256) % 256>>
BytesU32(v) == <<v % 256, (v \div 256) % 256, (v \div 65536) % 256, (v \div 16777216) % 256>>

\* memcpy(b + o, bytes, Len(bytes)).  A copy that runs past the end of the
\* buffer makes the result longer than the buffer, which TipoOK rejects.
PorBytes(b, o, bytes) ==
  [i \in 1..Max(Len(b), o + Len(bytes)) |->
     IF i > o /\ i <= o + Len(bytes) THEN bytes[i - o] ELSE b[i]]

\* memset(b + o, 0, n)
Zerar(b, o, n) ==
  [i \in 1..Max(Len(b), o + n) |-> IF i > o /\ i <= o + n THEN 0 ELSE b[i]]

BlocoZerado == [i \in 1..tamanho_bloco |-> 0]

\* (x + 3) & ~3
Arredondar4(x) == ((x + 3) \div 4) * 4

-----------------------------------------------------------------------------
(* Bitmap primitive *)

Pot2(k) == 2 ^ k

bit_esta_setado(bitmap, bit_idx) ==
  (bitmap[(bit_idx \div 8) + 1] \div Pot2(bit_idx % 8)) % 2 = 1

setar_bit(bitmap, bit_idx) ==
  IF bit_esta_setado(bitmap, bit_idx) THEN bitmap
  ELSE [bitmap EXCEPT ![(bit_idx \div 8) + 1] = @ + Pot2(bit_idx % 8)]

limpar_bit(bitmap, bit_idx) ==
  IF bit_esta_setado(bitmap, bit_idx)
  THEN [bitmap EXCEPT ![(bit_idx \div 8) + 1] = @ - Pot2(bit_idx % 8)]
  ELSE bitmap

-----------------------------------------------------------------------------
(* Block I/O and inode codec *)

num_grupos(fs) ==
  (fs.sb.blocks_count + fs.sb.blocks_per_group - 1) \div fs.sb.blocks_per_group

\* ler_bloco returns 0
ler_bloco_ok(fs, num_bloco) == num_bloco < fs.sb.blocks_count

\* escrever_bloco returns 0
escrever_bloco_ok(fs, num_bloco) ==
  num_bloco # 0 /\ num_bloco < fs.sb.blocks_count

escrever_bloco(fs, num_bloco, buffer) ==
  IF escrever_bloco_ok(fs, num_bloco)
  THEN [fs EXCEPT !.disco[num_bloco] = buffer]
  ELSE fs

\* ler_inode returns 0
ler_inode_ok(fs, inode_num) ==
  inode_num # 0 /\ inode_num <= fs.sb.inodes_count

escrever_inode(fs, inode_num, ino) ==
  IF ler_inode_ok(fs, inode_num)
  THEN [fs EXCEPT !.inodes[inode_num] = ino]
  ELSE fs

-----------------------------------------------------------------------------
(* Allocator *)

\* where a loop that runs over the indices S in rising order stops: the least
\* element of S, or nenhum when S is empty
primeiro_de(S, nenhum) ==
  IF S = {} THEN nenhum ELSE CHOOSE j \in S : \A x \in S : j <= x

\* the first clear bit j with de <= j < limite, or -1
primeiro_bit_livre(bitmap, de, limite) ==
  primeiro_de({j \in de..(limite - 1) : ~bit_esta_setado(bitmap, j)}, -1)

RECURSIVE alocar_inode_grupos(_, _)
alocar_inode_grupos(fs, i) ==
  IF i >= num_grupos(fs) THEN [fs |-> fs, ret |-> 0]
  ELSE IF fs.gdt[i].free_inodes_count > 0 /\ ler_bloco_ok(fs, fs.gdt[i].inode_bitmap)
  THEN LET bitmap == fs.disco[fs.gdt[i].inode_bitmap]
           j == primeiro_bit_livre(bitmap, 0, fs.sb.inodes_per_group)
       IN IF j < 0 THEN alocar_inode_grupos(fs, i + 1)
          ELSE IF ~escrever_bloco_ok(fs, fs.gdt[i].inode_bitmap)
          THEN [fs |-> fs, ret |-> 0]
          ELSE [fs |-> [escrever_bloco(fs, fs.gdt[i].inode_bitmap, setar_bit(bitmap, j))
                          EXCEPT !.sb.free_inodes_count = @ - 1,
                                 !.gdt[i].free_inodes_count = (@ - 1) % DOIS_16],
                ret |-> (i * fs.sb.inodes_per_group) + j + 1]
  ELSE alocar_inode_grupos(fs, i + 1)

\* alocar_inode without the test of the superblock's counter
alocar_inode_sem_teste(fs) == alocar_inode_grupos(fs, 0)

alocar_inode(fs) ==
  IF fs.sb.free_inodes_count = 0 THEN [fs |-> fs, ret |-> 0]
  ELSE alocar_inode_grupos(fs, 0)

\* liberar_inode without the superblock's counter
liberar_inode_sem_contador(fs, inode_num) ==
  IF inode_num = 0 \/ inode_num > fs.sb.inodes_count THEN [fs |-> fs, ret |-> -1]
  ELSE LET grupo_idx == (inode_num - 1) \div fs.sb.inodes_per_group
           indice_no_bitmap == (inode_num - 1) % fs.sb.inodes_per_group
           bloco_bitmap == fs.gdt[grupo_idx].inode_bitmap
       IN IF ~ler_bloco_ok(fs, bloco_bitmap) THEN [fs |-> fs, ret |-> -1]
          ELSE IF ~bit_esta_setado(fs.disco[bloco_bitmap], indice_no_bitmap)
          THEN [fs |-> fs, ret |-> 0]
          ELSE IF ~escrever_bloco_ok(fs, bloco_bitmap) THEN [fs |-> fs, ret |-> -1]
          ELSE [fs |-> [escrever_bloco(fs, bloco_bitmap,
                                       limpar_bit(fs.disco[bloco_bitmap], indice_no_bitmap))
                          EXCEPT !.gdt[grupo_idx].free_inodes_count = (@ + 1) % DOIS_16],
                ret |-> 0]

\* liberar_inode without the test for an inode that is already free
liberar_inode_sem_aviso(fs, inode_num) ==
  IF inode_num = 0 \/ inode_num > fs.sb.inodes_count THEN [fs |-> fs, ret |-> -1]
  ELSE LET grupo_idx == (inode_num - 1) \div fs.sb.inodes_per_group
           indice_no_bitmap == (inode_num - 1) % fs.sb.inodes_per_group
           bloco_bitmap == fs.gdt[grupo_idx].inode_bitmap
       IN IF ~ler_bloco_ok(fs, bloco_bitmap) THEN [fs |-> fs, ret |-> -1]
          ELSE IF ~escrever_bloco_ok(fs, bloco_bitmap) THEN [fs |-> fs, ret |-> -1]
          ELSE [fs |-> [escrever_bloco(fs, bloco_bitmap,
                                       limpar_bit(fs.disco[bloco_bitmap], indice_no_bitmap))
                          EXCEPT !.sb.free_inodes_count = @ + 1,
                                 !.gdt[grupo_idx].free_inodes_count = (@ + 1) % DOIS_16],
                ret |-> 0]

liberar_inode(fs, inode_num) ==
  IF inode_num = 0 \/ inode_num > fs.sb.inodes_count THEN [fs |-> fs, ret |-> -1]
  ELSE LET grupo_idx == (inode_num - 1) \div fs.sb.inodes_per_group
           indice_no_bitmap == (inode_num - 1) % fs.sb.inodes_per_group
           bloco_bitmap == fs.gdt[grupo_idx].inode_bitmap
       IN IF ~ler_bloco_ok(fs, bloco_bitmap) THEN [fs |-> fs, ret |-> -1]
          ELSE IF ~bit_esta_setado(fs.disco[bloco_bitmap], indice_no_bitmap)
          THEN [fs |-> fs, ret |-> 0]
          ELSE IF ~escrever_bloco_ok(fs, bloco_bitmap) THEN [fs |-> fs, ret |-> -1]
          ELSE [fs |-> [escrever_bloco(fs, bloco_bitmap,
                                       limpar_bit(fs.disco[bloco_bitmap], indice_no_bitmap))
                          EXCEPT !.sb.free_inodes_count = @ + 1,
                                 !.gdt[grupo_idx].free_inodes_count = (@ + 1) % DOIS_16],
                ret |-> 0]

\* A faulty variant of alocar_bloco_no_grupo that forgets the group
\* descriptor's counter: the sums of C1 depend on the code updating both.
alocar_bloco_no_grupo_sem_gd(fs, g) ==
  IF fs.gdt[g].free_blocks_count > 0 /\ ler_bloco_ok(fs, fs.gdt[g].block_bitmap)
  THEN LET bitmap == fs.disco[fs.gdt[g].block_bitmap]
           j == primeiro_bit_livre(bitmap, 0, fs.sb.blocks_per_group)
       IN IF j < 0 THEN [fs |-> fs, ret |-> 0]
          ELSE [fs |-> [escrever_bloco(fs, fs.gdt[g].block_bitmap, setar_bit(bitmap, j))
                          EXCEPT !.sb.free_blocks_count = @ - 1],
                ret |-> (g * fs.sb.blocks_per_group) + fs.sb.first_data_block + j]
  ELSE [fs |-> fs, ret |-> 0]

\* One group of alocar_bloco: set the first clear bit of group g, count it,
\* and return the block number; ret = 0 when the group yields nothing.
alocar_bloco_no_grupo(fs, g) ==
  IF fs.gdt[g].free_blocks_count > 0 /\ ler_bloco_ok(fs, fs.gdt[g].block_bitmap)
  THEN LET bitmap == fs.disco[fs.gdt[g].block_bitmap]
           j == primeiro_bit_livre(bitmap, 0, fs.sb.blocks_per_group)
       IN IF j < 0 THEN [fs |-> fs, ret |-> 0]
          ELSE [fs |-> [escrever_bloco(fs, fs.gdt[g].block_bitmap, setar_bit(bitmap, j))
                          EXCEPT !.sb.free_blocks_count = @ - 1,
                                 !.gdt[g].free_blocks_count = (@ - 1) % DOIS_16],
                ret |-> (g * fs.sb.blocks_per_group) + fs.sb.first_data_block + j]
  ELSE [fs |-> fs, ret |-> 0]

RECURSIVE alocar_bloco_grupos(_, _)
alocar_bloco_grupos(fs, i) ==
  IF i >= num_grupos(fs) THEN [fs |-> fs, ret |-> 0]
  ELSE LET r == alocar_bloco_no_grupo(fs, i)
       IN IF r.ret # 0 THEN r ELSE alocar_bloco_grupos(fs, i + 1)
\* alocar_bloco without the try of the group of the inode: the scan of all
\* groups only
alocar_bloco_sem_dica(fs, inode_num) ==
  IF fs.sb.free_blocks_count = 0 THEN [fs |-> fs, ret |-> 0]
  ELSE alocar_bloco_grupos(fs, 0)


alocar_bloco(fs, inode_num) ==
  IF fs.sb.free_blocks_count = 0 THEN [fs |-> fs, ret |-> 0]
  ELSE LET grupo_ideal == (inode_num - 1) \div fs.sb.inodes_per_group
           r == alocar_bloco_no_grupo(fs, grupo_ideal)
       IN IF r.ret # 0 THEN r ELSE alocar_bloco_grupos(fs, 0)

\* A faulty variant of liberar_bloco that takes the block number as the bit
\* index without subtracting first_data_block.
liberar_bloco_sem_base(fs, num_bloco) ==
  IF num_bloco < fs.sb.first_data_block \/ num_bloco >= fs.sb.blocks_count
  THEN [fs |-> fs, ret |-> -1]
  ELSE LET grupo_idx == num_bloco \div fs.sb.blocks_per_group
           indice_no_bitmap == num_bloco % fs.sb.blocks_per_group
           bloco_bitmap == fs.gdt[grupo_idx].block_bitmap
       IN IF ~bit_esta_setado(fs.disco[bloco_bitmap], indice_no_bitmap)
          THEN [fs |-> fs, ret |-> 0]
          ELSE [fs |-> [escrever_bloco(fs, bloco_bitmap,
                                       limpar_bit(fs.disco[bloco_bitmap], indice_no_bitmap))
                          EXCEPT !.sb.free_blocks_count = @ + 1,
                                 !.gdt[grupo_idx].free_blocks_count = (@ + 1) % DOIS_16],
                ret |-> 0]
\* liberar_bloco without the test of the block number against blocks_count
liberar_bloco_sem_limite(fs, num_bloco) ==
  IF num_bloco < fs.sb.first_data_block
  THEN [fs |-> fs, ret |-> -1]
  ELSE LET grupo_idx == (num_bloco - fs.sb.first_data_block) \div fs.sb.blocks_per_group
           indice_no_bitmap == (num_bloco - fs.sb.first_data_block) % fs.sb.blocks_per_group
           bloco_bitmap == fs.gdt[grupo_idx].block_bitmap
       IN IF ~ler_bloco_ok(fs, bloco_bitmap) THEN [fs |-> fs, ret |-> -1]
          ELSE IF ~bit_esta_setado(fs.disco[bloco_bitmap], indice_no_bitmap)
          THEN [fs |-> fs, ret |-> 0]
          ELSE IF ~escrever_bloco_ok(fs, bloco_bitmap) THEN [fs |-> fs, ret |-> -1]
          ELSE [fs |-> [escrever_bloco(fs, bloco_bitmap,
                                       limpar_bit(fs.disco[bloco_bitmap], indice_no_bitmap))
                          EXCEPT !.sb.free_blocks_count = @ + 1,
                                 !.gdt[grupo_idx].free_blocks_count = (@ + 1) % DOIS_16],
                ret |-> 0]


liberar_bloco(fs, num_bloco) ==
  IF num_bloco < fs.sb.first_data_block \/ num_bloco >= fs.sb.blocks_count
  THEN [fs |-> fs, ret |-> -1]
  ELSE LET grupo_idx == (num_bloco - fs.sb.first_data_block) \div fs.sb.blocks_per_group
           indice_no_bitmap == (num_bloco - fs.sb.first_data_block) % fs.sb.blocks_per_group
           bloco_bitmap == fs.gdt[grupo_idx].block_bitmap
       IN IF ~ler_bloco_ok(fs, bloco_bitmap) THEN [fs |-> fs, ret |-> -1]
          ELSE IF ~bit_esta_setado(fs.disco[bloco_bitmap], indice_no_bitmap)
          THEN [fs |-> fs, ret |-> 0]
          ELSE IF ~escrever_bloco_ok(fs, bloco_bitmap) THEN [fs |-> fs, ret |-> -1]
          ELSE [fs |-> [escrever_bloco(fs, bloco_bitmap,
                                       limpar_bit(fs.disco[bloco_bitmap], indice_no_bitmap))
                          EXCEPT !.sb.free_blocks_count = @ + 1,
                                 !.gdt[grupo_idx].free_blocks_count = (@ + 1) % DOIS_16],
                ret |-> 0]

\* What the device holds after each write of a successful alocar_inode, in
\* the order of the calls: escrever_bloco of the bitmap, escrever_superbloco,
\* escrever_descritor_grupo.  The counters are decremented in memory between
\* the first write and the second; sb and gdt of an element are the copies on
\* the device.  Empty when the function writes nothing.
etapas_alocar_inode(fs) ==
  LET r == alocar_inode(fs)
      i == (r.ret - 1) \div fs.sb.inodes_per_group
      j == (r.ret - 1) % fs.sb.inodes_per_group
      com_bitmap == escrever_bloco(fs, fs.gdt[i].inode_bitmap,
                                   setar_bit(fs.disco[fs.gdt[i].inode_bitmap], j))
      com_sb == [com_bitmap EXCEPT !.sb.free_inodes_count = @ - 1]
      com_gd == [com_sb EXCEPT !.gdt[i].free_inodes_count = (@ - 1) % DOIS_16]
  IN IF r.ret = 0 THEN <<>> ELSE <<com_bitmap, com_sb, com_gd>>

\* The same for a liberar_inode that clears a bit
etapas_liberar_inode(fs, inode_num) ==
  LET r == liberar_inode(fs, inode_num)
      grupo_idx == (inode_num - 1) \div fs.sb.inodes_per_group
      indice_no_bitmap == (inode_num - 1) % fs.sb.inodes_per_group
      bloco_bitmap == fs.gdt[grupo_idx].inode_bitmap
      com_bitmap == escrever_bloco(fs, bloco_bitmap,
                                   limpar_bit(fs.disco[bloco_bitmap], indice_no_bitmap))
      com_sb == [com_bitmap EXCEPT !.sb.free_inodes_count = @ + 1]
      com_gd == [com_sb EXCEPT !.gdt[grupo_idx].free_inodes_count = (@ + 1) % DOIS_16]
  IN IF r.ret # 0 \/ r.fs = fs THEN <<>> ELSE <<com_bitmap, com_sb, com_gd>>

\* etapas_alocar_bloco with the superblock and the descriptor written before
\* the bitmap
etapas_alocar_bloco_contadores_antes(fs, inode_num) ==
  LET r == alocar_bloco(fs, inode_num)
      g == (r.ret - fs.sb.first_data_block) \div fs.sb.blocks_per_group
      j == (r.ret - fs.sb.first_data_block) % fs.sb.blocks_per_group
      com_sb == [fs EXCEPT !.sb.free_blocks_count = @ - 1]
      com_gd == [com_sb EXCEPT !.gdt[g].free_blocks_count = (@ - 1) % DOIS_16]
      com_bitmap == escrever_bloco(com_gd, fs.gdt[g].block_bitmap,
                                   setar_bit(fs.disco[fs.gdt[g].block_bitmap], j))
  IN IF r.ret = 0 THEN <<>> ELSE <<com_sb, com_gd, com_bitmap>>

\* The same for a successful alocar_bloco, whether the block comes from the
\* group of the inode or from the scan of all groups: the three writes are
\* the same in both places
etapas_alocar_bloco(fs, inode_num) ==
  LET r == alocar_bloco(fs, inode_num)
      g == (r.ret - fs.sb.first_data_block) \div fs.sb.blocks_per_group
      j == (r.ret - fs.sb.first_data_block) % fs.sb.blocks_per_group
      com_bitmap == escrever_bloco(fs, fs.gdt[g].block_bitmap,
                                   setar_bit(fs.disco[fs.gdt[g].block_bitmap], j))
      com_sb == [com_bitmap EXCEPT !.sb.free_blocks_count = @ - 1]
      com_gd == [com_sb EXCEPT !.gdt[g].free_blocks_count = (@ - 1) % DOIS_16]
  IN IF r.ret = 0 THEN <<>> ELSE <<com_bitmap, com_sb, com_gd>>

\* The same for a liberar_bloco that clears a bit
etapas_liberar_bloco(fs, num_bloco) ==
  LET r == liberar_bloco(fs, num_bloco)
      grupo_idx == (num_bloco - fs.sb.first_data_block) \div fs.sb.blocks_per_group
      indice_no_bitmap == (num_bloco - fs.sb.first_data_block) % fs.sb.blocks_per_group
      bloco_bitmap == fs.gdt[grupo_idx].block_bitmap
      com_bitmap == escrever_bloco(fs, bloco_bitmap,
                                   limpar_bit(fs.disco[bloco_bitmap], indice_no_bitmap))
      com_sb == [com_bitmap EXCEPT !.sb.free_blocks_count = @ + 1]
      com_gd == [com_sb EXCEPT !.gdt[grupo_idx].free_blocks_count = (@ + 1) % DOIS_16]
  IN IF r.ret # 0 \/ r.fs = fs THEN <<>> ELSE <<com_bitmap, com_sb, com_gd>>

-----------------------------------------------------------------------------
(* Directory entries: ext2_dir_entry viewed at byte offset o of a block *)

e_inode(b, o) == LerU32(b, o)
e_rec_len(b, o) == LerU16(b, o + 4)
e_name_len(b, o) == b[o + 7]
e_file_type(b, o) == b[o + 8]
e_name(b, o) == SubSeq(b, o + TAMANHO_CABECALHO_ENTRADA_DIR + 1,
                          o + TAMANHO_CABECALHO_ENTRADA_DIR + e_name_len(b, o))

\* (TAMANHO_CABECALHO_ENTRADA_DIR + name_len + 3) & ~3
rec_len_real(name_len) == Arredondar4(TAMANHO_CABECALHO_ENTRADA_DIR + name_len)

\* The bytes of a new entry as the code stores them: the four header fields
\* and the name, nothing after the name.
PorEntrada(b, o, ino, rec_len, tipo, nome) ==
  PorBytes(b, o, BytesU32(ino) \o BytesU16(rec_len) \o <<Len(nome), tipo>> \o nome)

\* A pointer block: the uint32 at index i
ponteiro(b, i) == LerU32(b, TAMANHO_PONTEIRO * i)
PorPonteiro(b, i, v) == PorBytes(b, TAMANHO_PONTEIRO * i, BytesU32(v))

RECURSIVE ponteiros_de(_, _)
\* the pointers i, i+1, ... of a pointer block, in order
ponteiros_de(b, i) ==
  IF i >= ponteiros_por_bloco THEN <<>>
  ELSE <<ponteiro(b, i)>> \o ponteiros_de(b, i + 1)

RECURSIVE slots_duplos(_, _, _)
\* the L2 slots under the L1 block l1 of a double-indirect tree, from L1
\* index i on: a zero or unreadable L1 pointer contributes nothing
slots_duplos(fs, l1, i) ==
  IF i >= ponteiros_por_bloco THEN <<>>
  ELSE LET p == ponteiro(l1, i)
       IN (IF p # 0 /\ ler_bloco_ok(fs, p) THEN ponteiros_de(fs.disco[p], 0) ELSE <<>>)
          \o slots_duplos(fs, l1, i + 1)

\* The data-block slots of a directory in the order in which every scan of
\* the code visits them: block[0..11], the slots of block[12], the slots of
\* every L2 block under block[13].  Zero slots are kept: each scan decides
\* what a zero slot means.
slots_do_diretorio(fs, ino) ==
  [i \in 1..NUM_DIRETOS |-> ino.block[i - 1]]
  \o (IF ino.block[12] # 0 /\ ler_bloco_ok(fs, ino.block[12])
      THEN ponteiros_de(fs.disco[ino.block[12]], 0) ELSE <<>>)
  \o (IF ino.block[13] # 0 /\ ler_bloco_ok(fs, ino.block[13])
      THEN slots_duplos(fs, fs.disco[ino.block[13]], 0) ELSE <<>>)

RECURSIVE buscar_no_buffer(_, _, _)
\* the loop of buscar_nome_em_bloco: the inode of the first live entry named
\* nome at or after offset, or 0
buscar_no_buffer(b, offset, nome) ==
  IF offset >= tamanho_bloco THEN 0
  ELSE IF e_rec_len(b, offset) = 0 THEN 0
  ELSE IF e_inode(b, offset) # 0 /\ e_name_len(b, offset) = Len(nome)
          /\ e_name(b, offset) = nome
  THEN e_inode(b, offset)
  ELSE IF offset + e_rec_len(b, offset) >= tamanho_bloco THEN 0
  ELSE buscar_no_buffer(b, offset + e_rec_len(b, offset), nome)

\* status 1 found, 0 not found, -1 read error
buscar_nome_em_bloco(fs, num_bloco, nome) ==
  IF num_bloco = 0 THEN [status |-> 0, inode |-> 0]
  ELSE IF ~ler_bloco_ok(fs, num_bloco) THEN [status |-> -1, inode |-> 0]
  ELSE LET n == buscar_no_buffer(fs.disco[num_bloco], 0, nome)
       IN [status |-> IF n # 0 THEN 1 ELSE 0, inode |-> n]

\* the scan of the slots from the k-th on: it stops at the first block that
\* holds the name (status 1) or cannot be read (status -1)
procurar_nos_slots(fs, slots, k, nome) ==
  LET para == primeiro_de({j \in k..Len(slots) :
                             buscar_nome_em_bloco(fs, slots[j], nome).status # 0}, 0)
  IN IF para = 0 THEN 0
     ELSE buscar_nome_em_bloco(fs, slots[para], nome).inode

procurar_entrada_no_diretorio(fs, dir_inode_num, nome_procurado) ==
  IF ~ler_inode_ok(fs, dir_inode_num) THEN 0
  ELSE IF ~EXT2_IS_DIR(fs.inodes[dir_inode_num].mode) THEN 0
  ELSE procurar_nos_slots(fs, slots_do_diretorio(fs, fs.inodes[dir_inode_num]),
                          1, nome_procurado)

-----------------------------------------------------------------------------
(* Strings and the path resolver *)

\* strtok(s, delims): the maximal runs of bytes of s that are not in delims
RECURSIVE Tokens(_, _, _)
Tokens(s, delims, atual) ==
  IF s = <<>> THEN (IF atual = <<>> THEN <<>> ELSE <<atual>>)
  ELSE IF Head(s) \in delims
  THEN (IF atual = <<>> THEN <<>> ELSE <<atual>>) \o Tokens(Tail(s), delims, <<>>)
  ELSE Tokens(Tail(s), delims, Append(atual, Head(s)))

CH_BARRA == 47
CH_PONTO == 46
CH_ESPACO == 32
CH_TAB == 9

STR_BARRA == <<CH_BARRA>>
STR_PONTO == <<CH_PONTO>>
STR_PONTO_PONTO == <<CH_PONTO, CH_PONTO>>

RECURSIVE SemBarrasFinais(_)
SemBarrasFinais(s) ==
  IF s # <<>> /\ s[Len(s)] = CH_BARRA THEN SemBarrasFinais(SubSeq(s, 1, Len(s) - 1))
  ELSE s

RECURSIVE UltimaBarra(_, _)
\* the position of the last '/' of s at or before k, or 0
UltimaBarra(s, k) ==
  IF k = 0 THEN 0 ELSE IF s[k] = CH_BARRA THEN k ELSE UltimaBarra(s, k - 1)

\* basename(3) of libgen.h
basename(s) ==
  IF s = <<>> THEN STR_PONTO
  ELSE LET t == SemBarrasFinais(s)
       IN IF t = <<>> THEN STR_BARRA
          ELSE SubSeq(t, UltimaBarra(t, Len(t)) + 1, Len(t))

\* dirname(3) of libgen.h
dirname(s) ==
  IF s = <<>> THEN STR_PONTO
  ELSE LET t == SemBarrasFinais(s)
       IN IF t = <<>> THEN STR_BARRA
          ELSE LET k == UltimaBarra(t, Len(t))
               IN IF k = 0 THEN STR_PONTO
                  ELSE LET d == SemBarrasFinais(SubSeq(t, 1, k))
                       IN IF d = <<>> THEN STR_BARRA ELSE d

RECURSIVE navegar(_, _, _, _)
\* the navigation loop of caminho_para_inode over the tokens k, k+1, ...
navegar(fs, inode_corrente, tokens, k) ==
  IF k > Len(tokens) THEN inode_corrente
  ELSE LET proximo_inode == procurar_entrada_no_diretorio(fs, inode_corrente, tokens[k])
       IN IF proximo_inode = 0 THEN 0
          ELSE navegar(fs, proximo_inode, tokens, k + 1)

\* caminho_para_inode that starts every path, relative ones too, at the root
caminho_para_inode_da_raiz(fs, inode_dir_atual, caminho) ==
  IF caminho = STR_BARRA THEN EXT2_ROOT_INO
  ELSE navegar(fs, EXT2_ROOT_INO, Tokens(caminho, {CH_BARRA}, <<>>), 1)

caminho_para_inode(fs, inode_dir_atual, caminho) ==
  IF caminho = STR_BARRA THEN EXT2_ROOT_INO
  ELSE navegar(fs,
               IF caminho # <<>> /\ caminho[1] = CH_BARRA THEN EXT2_ROOT_INO
               ELSE inode_dir_atual,
               Tokens(caminho, {CH_BARRA}, <<>>), 1)

-----------------------------------------------------------------------------
(* Directory entry engine: insertion *)

RECURSIVE ultima_entrada(_, _)
\* the scan of adicionar_entrada_diretorio inside one block: the offset of
\* the entry whose record reaches the end of the block, or -1
ultima_entrada(b, offset) ==
  IF offset >= tamanho_bloco THEN -1
  ELSE IF e_rec_len(b, offset) = 0 THEN -1
  ELSE IF offset + e_rec_len(b, offset) >= tamanho_bloco THEN offset
  ELSE ultima_entrada(b, offset + e_rec_len(b, offset))

\* cabe_no_bloco that takes no block whose last record is deleted
cabe_no_bloco_so_vivo(b, rec_len_necessario) ==
  LET o == ultima_entrada(b, 0)
  IN o >= 0
     /\ e_inode(b, o) # 0
     /\ e_rec_len(b, o) - rec_len_real(e_name_len(b, o)) >= rec_len_necessario

\* the last entry of block b has slack for a record of rec_len_necessario
cabe_no_bloco(b, rec_len_necessario) ==
  LET o == ultima_entrada(b, 0)
  IN o >= 0
     /\ e_rec_len(b, o) - rec_len_real(e_name_len(b, o)) >= rec_len_necessario

\* inserir_no_bloco with the new entry given only its own footprint instead
\* of the rest of the block
inserir_no_bloco_justo(b, inode_filho, nome_filho, tipo_arquivo) ==
  LET o == ultima_entrada(b, 0)
      rec_len_real_atual == rec_len_real(e_name_len(b, o))
      b1 == PorBytes(b, o + 4, BytesU16(rec_len_real_atual))
  IN PorEntrada(b1, o + rec_len_real_atual, inode_filho,
                rec_len_real(Len(nome_filho)), tipo_arquivo, nome_filho)

\* shrink the last entry to its footprint and put the new entry in the slack
inserir_no_bloco(b, inode_filho, nome_filho, tipo_arquivo) ==
  LET o == ultima_entrada(b, 0)
      rec_len_antigo == e_rec_len(b, o)
      rec_len_real_atual == rec_len_real(e_name_len(b, o))
      b1 == PorBytes(b, o + 4, BytesU16(rec_len_real_atual))
  IN PorEntrada(b1, o + rec_len_real_atual, inode_filho,
                (rec_len_antigo - rec_len_real_atual) % DOIS_16,
                tipo_arquivo, nome_filho)

\* phase 1: the first allocated, readable block of the directory, in slot
\* order from the k-th slot on, whose last entry has enough slack; 0 if
\* there is none
bloco_com_espaco(fs, slots, k, rec_len_necessario) ==
  LET para == primeiro_de({j \in k..Len(slots) :
                             /\ slots[j] # 0
                             /\ ler_bloco_ok(fs, slots[j])
                             /\ cabe_no_bloco(fs.disco[slots[j]], rec_len_necessario)}, 0)
  IN IF para = 0 THEN 0 ELSE slots[para]

\* primeiro_direto_livre taking the last free direct slot instead of the
\* first
RECURSIVE ultimo_direto_livre(_, _)
ultimo_direto_livre(ino, i) ==
  IF i >= NUM_DIRETOS THEN -1
  ELSE IF ultimo_direto_livre(ino, i + 1) >= 0 THEN ultimo_direto_livre(ino, i + 1)
  ELSE IF ino.block[i] = 0 THEN i ELSE -1

RECURSIVE primeiro_direto_livre(_, _)
primeiro_direto_livre(ino, i) ==
  IF i >= NUM_DIRETOS THEN -1
  ELSE IF ino.block[i] = 0 THEN i ELSE primeiro_direto_livre(ino, i + 1)

RECURSIVE primeiro_ponteiro_livre(_, _)
primeiro_ponteiro_livre(b, i) ==
  IF i >= ponteiros_por_bloco THEN -1
  ELSE IF ponteiro(b, i) = 0 THEN i ELSE primeiro_ponteiro_livre(b, i + 1)

\* a zeroed block holding the single entry of a new directory data block
bloco_de_uma_entrada(inode_filho, nome_filho, tipo_arquivo) ==
  PorEntrada(BlocoZerado, 0, inode_filho, tamanho_bloco, tipo_arquivo, nome_filho)

\* label preparar_e_escrever_novo_bloco: the only place where the size of
\* the parent grows
preparar_e_escrever_novo_bloco(fs, ino, novo_bloco_dados, inode_filho, nome_filho, tipo_arquivo) ==
  [fs |-> escrever_bloco(fs, novo_bloco_dados,
                         bloco_de_uma_entrada(inode_filho, nome_filho, tipo_arquivo)),
   inode_pai |-> [ino EXCEPT !.size = @ + tamanho_bloco,
                             !.blocks = @ + (tamanho_bloco \div TAMANHO_SETOR)],
   ret |-> 0]

RECURSIVE ligar_duplo_existente(_, _, _, _, _, _, _, _)
\* scenario B of the double-indirect attach: walk the L1 block from index i
ligar_duplo_existente(fs, ino, inode_pai_num, l1, i, novo, filho, nt) ==
  IF i >= ponteiros_por_bloco
  THEN \* the loop ends without a free slot: control falls into the label
       preparar_e_escrever_novo_bloco(fs, ino, novo, filho, nt[1], nt[2])
  ELSE IF ponteiro(l1, i) = 0
  THEN LET a == alocar_bloco(fs, inode_pai_num)
       IN IF a.ret = 0
          THEN [fs |-> liberar_bloco(fs, novo).fs, inode_pai |-> ino, ret |-> -1]
          ELSE LET fs1 == escrever_bloco(a.fs, ino.block[13], PorPonteiro(l1, i, a.ret))
                   fs2 == escrever_bloco(fs1, a.ret, PorPonteiro(BlocoZerado, 0, novo))
               IN preparar_e_escrever_novo_bloco(fs2,
                    [ino EXCEPT !.blocks = @ + (tamanho_bloco \div TAMANHO_SETOR)],
                    novo, filho, nt[1], nt[2])
  ELSE IF ler_bloco_ok(fs, ponteiro(l1, i))
          /\ primeiro_ponteiro_livre(fs.disco[ponteiro(l1, i)], 0) >= 0
  THEN LET l2 == fs.disco[ponteiro(l1, i)]
           j == primeiro_ponteiro_livre(l2, 0)
       IN preparar_e_escrever_novo_bloco(
            escrever_bloco(fs, ponteiro(l1, i), PorPonteiro(l2, j, novo)),
            ino, novo, filho, nt[1], nt[2])
  ELSE ligar_duplo_existente(fs, ino, inode_pai_num, l1, i + 1, novo, filho, nt)

\* scenario A: the double-indirect tree does not exist yet
ligar_duplo_novo(fs, ino, inode_pai_num, novo, filho, nt) ==
  LET a1 == alocar_bloco(fs, inode_pai_num)
  IN IF a1.ret = 0
     THEN [fs |-> liberar_bloco(fs, novo).fs, inode_pai |-> ino, ret |-> -1]
     ELSE LET a2 == alocar_bloco(a1.fs, inode_pai_num)
          IN IF a2.ret = 0
             THEN [fs |-> liberar_bloco(liberar_bloco(a1.fs, a1.ret).fs, novo).fs,
                   inode_pai |-> ino, ret |-> -1]
             ELSE LET fs1 == escrever_bloco(a2.fs, a2.ret, PorPonteiro(BlocoZerado, 0, novo))
                      fs2 == escrever_bloco(fs1, a1.ret, PorPonteiro(BlocoZerado, 0, a2.ret))
                  IN preparar_e_escrever_novo_bloco(fs2,
                       [ino EXCEPT !.block[13] = a1.ret,
                                   !.blocks = @ + 2 * (tamanho_bloco \div TAMANHO_SETOR)],
                       novo, filho, nt[1], nt[2])

\* phase 2: attach the freshly allocated data block novo to the parent
ligar_novo_bloco(fs, ino, inode_pai_num, novo, filho, nt) ==
  IF primeiro_direto_livre(ino, 0) >= 0
  THEN [fs |-> fs,
        inode_pai |-> [ino EXCEPT !.block[primeiro_direto_livre(ino, 0)] = novo],
        ret |-> 0]
  ELSE IF ino.block[12] = 0
  THEN LET a == alocar_bloco(fs, inode_pai_num)
       IN IF a.ret = 0
          THEN [fs |-> liberar_bloco(fs, novo).fs, inode_pai |-> ino, ret |-> -1]
          ELSE [fs |-> escrever_bloco(a.fs, a.ret, PorPonteiro(BlocoZerado, 0, novo)),
                inode_pai |-> [ino EXCEPT !.block[12] = a.ret,
                                 !.blocks = @ + (tamanho_bloco \div TAMANHO_SETOR)],
                ret |-> 0]
  ELSE IF primeiro_ponteiro_livre(fs.disco[ino.block[12]], 0) >= 0
  THEN LET l1 == fs.disco[ino.block[12]]
       IN [fs |-> escrever_bloco(fs, ino.block[12],
                                 PorPonteiro(l1, primeiro_ponteiro_livre(l1, 0), novo)),
           inode_pai |-> ino, ret |-> 0]
  ELSE IF ino.block[13] = 0
  THEN ligar_duplo_novo(fs, ino, inode_pai_num, novo, filho, nt)
  ELSE ligar_duplo_existente(fs, ino, inode_pai_num, fs.disco[ino.block[13]], 0,
                             novo, filho, nt)

\* Returns the file system, the caller's in-memory copy of the parent inode
\* (which this function changes but does not write) and the return code.
adicionar_entrada_diretorio(fs, inode_pai, inode_pai_num, inode_filho, nome_filho, tipo_arquivo) ==
  LET rec_len_necessario == rec_len_real(Len(nome_filho))
      alvo == bloco_com_espaco(fs, slots_do_diretorio(fs, inode_pai), 1, rec_len_necessario)
  IN IF alvo # 0
     THEN [fs |-> escrever_bloco(fs, alvo,
                    inserir_no_bloco(fs.disco[alvo], inode_filho, nome_filho, tipo_arquivo)),
           inode_pai |-> inode_pai, ret |-> 0]
     ELSE LET a == alocar_bloco(fs, inode_pai_num)
          IN IF a.ret = 0 THEN [fs |-> fs, inode_pai |-> inode_pai, ret |-> -1]
             ELSE ligar_novo_bloco(
                    escrever_bloco(a.fs, a.ret,
                                   bloco_de_uma_entrada(inode_filho, nome_filho, tipo_arquivo)),
                    inode_pai, inode_pai_num, a.ret, inode_filho,
                    <<nome_filho, tipo_arquivo>>)

-----------------------------------------------------------------------------
(* Directory entry engine: removal, emptiness test, rename in place *)

RECURSIVE remover_no_buffer_sem_fundir(_, _, _, _)
\* remover_no_buffer without the merge into the previous record: an entry
\* that has a predecessor is reported removed but stays in the block
remover_no_buffer_sem_fundir(b, offset, anterior, nome_filho) ==
  IF offset >= tamanho_bloco THEN [buffer |-> b, status |-> 0]
  ELSE IF e_rec_len(b, offset) = 0 THEN [buffer |-> b, status |-> 0]
  ELSE IF e_inode(b, offset) # 0 /\ e_name_len(b, offset) = Len(nome_filho)
          /\ e_name(b, offset) = nome_filho
  THEN [buffer |-> IF anterior >= 0 THEN b ELSE PorBytes(b, offset, BytesU32(0)),
        status |-> 1]
  ELSE remover_no_buffer_sem_fundir(b, offset + e_rec_len(b, offset), offset, nome_filho)

RECURSIVE remover_no_buffer(_, _, _, _)
\* the loop of remover_entrada_em_bloco; anterior is the offset of
\* entry_anterior, or -1 for NULL.  Returns the buffer and 1 or 0.
remover_no_buffer(b, offset, anterior, nome_filho) ==
  IF offset >= tamanho_bloco THEN [buffer |-> b, status |-> 0]
  ELSE IF e_rec_len(b, offset) = 0 THEN [buffer |-> b, status |-> 0]
  ELSE IF e_inode(b, offset) # 0 /\ e_name_len(b, offset) = Len(nome_filho)
          /\ e_name(b, offset) = nome_filho
  THEN [buffer |-> IF anterior >= 0
                   THEN PorBytes(b, anterior + 4,
                          BytesU16((e_rec_len(b, anterior) + e_rec_len(b, offset)) % DOIS_16))
                   ELSE PorBytes(b, offset, BytesU32(0)),
        status |-> 1]
  ELSE remover_no_buffer(b, offset + e_rec_len(b, offset), offset, nome_filho)

remover_entrada_em_bloco(fs, num_bloco, nome_filho) ==
  IF ~ler_bloco_ok(fs, num_bloco) THEN [fs |-> fs, status |-> -1]
  ELSE LET r == remover_no_buffer(fs.disco[num_bloco], 0, -1, nome_filho)
       IN IF r.status = 1
          THEN [fs |-> escrever_bloco(fs, num_bloco, r.buffer), status |-> 1]
          ELSE [fs |-> fs, status |-> 0]

\* the scan of the slots from the k-th on: zero slots are skipped, and the
\* scan stops at the first block where the removal is done or fails
remover_nos_slots(fs, slots, k, nome_filho) ==
  LET para == primeiro_de({j \in k..Len(slots) :
                             /\ slots[j] # 0
                             /\ remover_entrada_em_bloco(fs, slots[j], nome_filho).status # 0}, 0)
  IN IF para = 0 THEN [fs |-> fs, status |-> 0]
     ELSE remover_entrada_em_bloco(fs, slots[para], nome_filho)
\* remover_entrada_diretorio looking at the direct blocks only
remover_entrada_diretorio_so_diretos(fs, inode_pai, nome_filho) ==
  LET r == remover_nos_slots(fs, [i \in 1..NUM_DIRETOS |-> inode_pai.block[i - 1]],
                             1, nome_filho)
  IN [fs |-> r.fs, ret |-> IF r.status = 1 THEN 0 ELSE -1]


remover_entrada_diretorio(fs, inode_pai, nome_filho) ==
  LET r == remover_nos_slots(fs, slots_do_diretorio(fs, inode_pai), 1, nome_filho)
  IN [fs |-> r.fs, ret |-> IF r.status = 1 THEN 0 ELSE -1]

RECURSIVE contem_no_buffer(_, _)
\* the loop of bloco_dir_contem_entradas: 1 when a live entry other than
\* "." and ".." is met
contem_no_buffer(b, offset) ==
  IF offset >= tamanho_bloco THEN 0
  ELSE IF e_rec_len(b, offset) = 0 THEN 0
  ELSE IF e_inode(b, offset) # 0
          /\ ~(e_name_len(b, offset) = 1 /\ e_name(b, offset) = STR_PONTO)
          /\ ~(e_name_len(b, offset) = 2 /\ e_name(b, offset) = STR_PONTO_PONTO)
  THEN 1
  ELSE IF offset + e_rec_len(b, offset) >= tamanho_bloco THEN 0
  ELSE contem_no_buffer(b, offset + e_rec_len(b, offset))

bloco_dir_contem_entradas(fs, num_bloco) ==
  IF num_bloco = 0 THEN 0
  ELSE IF ~ler_bloco_ok(fs, num_bloco) THEN -1
  ELSE contem_no_buffer(fs.disco[num_bloco], 0)

\* the scan of the slots from the k-th on: it stops at the first block that
\* holds an entry or cannot be read
contem_nos_slots(fs, slots, k) ==
  LET para == primeiro_de({j \in k..Len(slots) :
                             bloco_dir_contem_entradas(fs, slots[j]) # 0}, 0)
  IN IF para = 0 THEN 0 ELSE bloco_dir_contem_entradas(fs, slots[para])

\* diretorio_esta_vazio looking at the direct blocks only
diretorio_esta_vazio_so_diretos(fs, dir_ino) ==
  IF ~EXT2_IS_DIR(dir_ino.mode) THEN -1
  ELSE LET status_busca ==
             contem_nos_slots(fs, [i \in 1..NUM_DIRETOS |-> dir_ino.block[i - 1]], 1)
       IN IF status_busca = 1 THEN 0 ELSE IF status_busca = 0 THEN 1 ELSE -1

\* 1 empty, 0 not empty, -1 error
diretorio_esta_vazio(fs, dir_ino) ==
  IF ~EXT2_IS_DIR(dir_ino.mode) THEN -1
  ELSE LET status_busca == contem_nos_slots(fs, slots_do_diretorio(fs, dir_ino), 1)
       IN IF status_busca = 1 THEN 0 ELSE IF status_busca = 0 THEN 1 ELSE -1

RECURSIVE renomear_no_buffer_sem_limpar(_, _, _, _)
\* renomear_no_buffer without the memset of the rest of the record
renomear_no_buffer_sem_limpar(b, offset, nome_antigo, nome_novo) ==
  IF offset >= tamanho_bloco THEN [buffer |-> b, status |-> 0]
  ELSE IF e_rec_len(b, offset) = 0 THEN [buffer |-> b, status |-> 0]
  ELSE IF e_inode(b, offset) # 0 /\ e_name_len(b, offset) = Len(nome_antigo)
          /\ e_name(b, offset) = nome_antigo
  THEN IF rec_len_real(Len(nome_novo)) > e_rec_len(b, offset)
       THEN [buffer |-> b, status |-> -1]
       ELSE [buffer |-> PorBytes(PorBytes(b, offset + 6, <<Len(nome_novo)>>),
                                 offset + TAMANHO_CABECALHO_ENTRADA_DIR, nome_novo),
             status |-> 1]
  ELSE IF offset + e_rec_len(b, offset) >= tamanho_bloco THEN [buffer |-> b, status |-> 0]
  ELSE renomear_no_buffer_sem_limpar(b, offset + e_rec_len(b, offset), nome_antigo, nome_novo)

RECURSIVE renomear_no_buffer(_, _, _, _)
\* the loop of renomear_entrada_em_bloco: 1 renamed, 0 not found, -1 the new
\* name does not fit the record of the entry
renomear_no_buffer(b, offset, nome_antigo, nome_novo) ==
  IF offset >= tamanho_bloco THEN [buffer |-> b, status |-> 0]
  ELSE IF e_rec_len(b, offset) = 0 THEN [buffer |-> b, status |-> 0]
  ELSE IF e_inode(b, offset) # 0 /\ e_name_len(b, offset) = Len(nome_antigo)
          /\ e_name(b, offset) = nome_antigo
  THEN IF rec_len_real(Len(nome_novo)) > e_rec_len(b, offset)
       THEN [buffer |-> b, status |-> -1]
       ELSE LET rec_len == e_rec_len(b, offset)
                tam_real_novo_sem_padding == TAMANHO_CABECALHO_ENTRADA_DIR + Len(nome_novo)
                b1 == PorBytes(b, offset + 6, <<Len(nome_novo)>>)
                b2 == PorBytes(b1, offset + TAMANHO_CABECALHO_ENTRADA_DIR, nome_novo)
            IN [buffer |-> IF rec_len > tam_real_novo_sem_padding
                           THEN Zerar(b2, offset + tam_real_novo_sem_padding,
                                      rec_len - tam_real_novo_sem_padding)
                           ELSE b2,
                status |-> 1]
  ELSE IF offset + e_rec_len(b, offset) >= tamanho_bloco THEN [buffer |-> b, status |-> 0]
  ELSE renomear_no_buffer(b, offset + e_rec_len(b, offset), nome_antigo, nome_novo)

renomear_entrada_em_bloco(fs, num_bloco, nome_antigo, nome_novo) ==
  IF num_bloco = 0 THEN [fs |-> fs, status |-> 0]
  ELSE IF ~ler_bloco_ok(fs, num_bloco) THEN [fs |-> fs, status |-> 0]
  ELSE LET r == renomear_no_buffer(fs.disco[num_bloco], 0, nome_antigo, nome_novo)
       IN IF r.status = 1
          THEN [fs |-> escrever_bloco(fs, num_bloco, r.buffer), status |-> 1]
          ELSE [fs |-> fs, status |-> r.status]

\* the scan of the slots from the k-th on: it stops at the first block where
\* the rename is done or fails
renomear_nos_slots(fs, slots, k, nome_antigo, nome_novo) ==
  LET para == primeiro_de({j \in k..Len(slots) :
                             renomear_entrada_em_bloco(fs, slots[j], nome_antigo,
                                                       nome_novo).status # 0}, 0)
  IN IF para = 0 THEN [fs |-> fs, status |-> 0]
     ELSE renomear_entrada_em_bloco(fs, slots[para], nome_antigo, nome_novo)

-----------------------------------------------------------------------------
(* Commands.  Each returns the file system after the command and the message
   it prints; the argument <<>> stands for a NULL argumentos. *)

\* memset(&ino, 0, sizeof(inode)) followed by the assignments of the caller
inode_zerado ==
  [mode |-> 0, size |-> 0, links_count |-> 0, blocks |-> 0, dtime |-> 0,
   atime |-> 0, ctime |-> 0, mtime |-> 0,
   block |-> [i \in 0..(EXT2_N_BLOCKS - 1) |-> 0]]

\* comando_touch without the rollback of the inode when the entry cannot be
\* inserted
comando_touch_sem_reverter(fs, inode_dir_atual, argumentos) ==
  IF argumentos = <<>> THEN [fs |-> fs, msg |-> "faltando operando"]
  ELSE LET dir_pai_str == dirname(argumentos)
           nome_arquivo_novo == basename(argumentos)
           inode_pai_num == caminho_para_inode(fs, inode_dir_atual, dir_pai_str)
       IN IF Len(nome_arquivo_novo) > EXT2_NAME_LEN THEN [fs |-> fs, msg |-> "nome muito longo"]
          ELSE IF inode_pai_num = 0 THEN [fs |-> fs, msg |-> "pai nao encontrado"]
          ELSE IF ~ler_inode_ok(fs, inode_pai_num) \/ ~EXT2_IS_DIR(fs.inodes[inode_pai_num].mode)
          THEN [fs |-> fs, msg |-> "nao e um diretorio"]
          ELSE IF procurar_entrada_no_diretorio(fs, inode_pai_num, nome_arquivo_novo) # 0
          THEN [fs |-> fs, msg |-> "ja existe"]
          ELSE LET a == alocar_inode(fs)
               IN IF a.ret = 0 THEN [fs |-> fs, msg |-> "falha ao alocar inode"]
                  ELSE LET e == adicionar_entrada_diretorio(a.fs, fs.inodes[inode_pai_num],
                                  inode_pai_num, a.ret, nome_arquivo_novo, EXT2_FT_REG_FILE)
                       IN IF e.ret # 0
                          THEN [fs |-> e.fs,
                                msg |-> "falha ao adicionar entrada"]
                          ELSE [fs |-> escrever_inode(
                                         escrever_inode(e.fs, a.ret,
                                           [inode_zerado EXCEPT !.mode = EXT2_S_IFREG + PERM_ARQUIVO,
                                                                !.links_count = 1,
                                                                !.atime = AGORA(fs),
                                                                !.ctime = AGORA(fs),
                                                                !.mtime = AGORA(fs)]),
                                         inode_pai_num, [e.inode_pai EXCEPT !.mtime = AGORA(fs)]),
                                msg |-> "ok"]

\* comando_touch as the help text of main describes it: the times of a file
\* that already exists are brought up to date
comando_touch_atualiza(fs, inode_dir_atual, argumentos) ==
  IF argumentos = <<>> THEN [fs |-> fs, msg |-> "faltando operando"]
  ELSE LET dir_pai_str == dirname(argumentos)
           nome_arquivo_novo == basename(argumentos)
           inode_pai_num == caminho_para_inode(fs, inode_dir_atual, dir_pai_str)
       IN IF Len(nome_arquivo_novo) > EXT2_NAME_LEN THEN [fs |-> fs, msg |-> "nome muito longo"]
          ELSE IF inode_pai_num = 0 THEN [fs |-> fs, msg |-> "pai nao encontrado"]
          ELSE IF ~ler_inode_ok(fs, inode_pai_num) \/ ~EXT2_IS_DIR(fs.inodes[inode_pai_num].mode)
          THEN [fs |-> fs, msg |-> "nao e um diretorio"]
          ELSE IF procurar_entrada_no_diretorio(fs, inode_pai_num, nome_arquivo_novo) # 0
          THEN LET inode_existente_num ==
                     procurar_entrada_no_diretorio(fs, inode_pai_num, nome_arquivo_novo)
               IN [fs |-> escrever_inode(fs, inode_existente_num,
                            [fs.inodes[inode_existente_num] EXCEPT !.atime = AGORA(fs),
                                                                   !.mtime = AGORA(fs)]),
                   msg |-> "ja existe"]
          ELSE LET a == alocar_inode(fs)
               IN IF a.ret = 0 THEN [fs |-> fs, msg |-> "falha ao alocar inode"]
                  ELSE LET e == adicionar_entrada_diretorio(a.fs, fs.inodes[inode_pai_num],
                                  inode_pai_num, a.ret, nome_arquivo_novo, EXT2_FT_REG_FILE)
                       IN IF e.ret # 0
                          THEN [fs |-> liberar_inode(e.fs, a.ret).fs,
                                msg |-> "falha ao adicionar entrada"]
                          ELSE [fs |-> escrever_inode(
                                         escrever_inode(e.fs, a.ret,
                                           [inode_zerado EXCEPT !.mode = EXT2_S_IFREG + PERM_ARQUIVO,
                                                                !.links_count = 1,
                                                                !.atime = AGORA(fs),
                                                                !.ctime = AGORA(fs),
                                                                !.mtime = AGORA(fs)]),
                                         inode_pai_num, [e.inode_pai EXCEPT !.mtime = AGORA(fs)]),
                                msg |-> "ok"]

comando_touch(fs, inode_dir_atual, argumentos) ==
  IF argumentos = <<>> THEN [fs |-> fs, msg |-> "faltando operando"]
  ELSE LET dir_pai_str == dirname(argumentos)
           nome_arquivo_novo == basename(argumentos)
           inode_pai_num == caminho_para_inode(fs, inode_dir_atual, dir_pai_str)
       IN IF Len(nome_arquivo_novo) > EXT2_NAME_LEN THEN [fs |-> fs, msg |-> "nome muito longo"]
          ELSE IF inode_pai_num = 0 THEN [fs |-> fs, msg |-> "pai nao encontrado"]
          ELSE IF ~ler_inode_ok(fs, inode_pai_num) \/ ~EXT2_IS_DIR(fs.inodes[inode_pai_num].mode)
          THEN [fs |-> fs, msg |-> "nao e um diretorio"]
          ELSE IF procurar_entrada_no_diretorio(fs, inode_pai_num, nome_arquivo_novo) # 0
          THEN [fs |-> fs, msg |-> "ja existe"]
          ELSE LET a == alocar_inode(fs)
               IN IF a.ret = 0 THEN [fs |-> fs, msg |-> "falha ao alocar inode"]
                  ELSE LET e == adicionar_entrada_diretorio(a.fs, fs.inodes[inode_pai_num],
                                  inode_pai_num, a.ret, nome_arquivo_novo, EXT2_FT_REG_FILE)
                       IN IF e.ret # 0
                          THEN [fs |-> liberar_inode(e.fs, a.ret).fs,
                                msg |-> "falha ao adicionar entrada"]
                          ELSE [fs |-> escrever_inode(
                                         escrever_inode(e.fs, a.ret,
                                           [inode_zerado EXCEPT !.mode = EXT2_S_IFREG + PERM_ARQUIVO,
                                                                !.links_count = 1,
                                                                !.atime = AGORA(fs),
                                                                !.ctime = AGORA(fs),
                                                                !.mtime = AGORA(fs)]),
                                         inode_pai_num, [e.inode_pai EXCEPT !.mtime = AGORA(fs)]),
                                msg |-> "ok"]

\* The volume after each call of comando_touch that writes, in the order of
\* the calls: alocar_inode, adicionar_entrada_diretorio, then liberar_inode
\* when the entry could not be added, else escrever_inode of the new inode
\* and escrever_inode of the parent.  Empty when touch stops before it
\* allocates.
etapas_do_touch(fs, inode_dir_atual, argumentos) ==
  IF comando_touch(fs, inode_dir_atual, argumentos).msg
       \notin {"ok", "falha ao adicionar entrada"}
  THEN <<>>
  ELSE LET nome_arquivo_novo == basename(argumentos)
           inode_pai_num == caminho_para_inode(fs, inode_dir_atual, dirname(argumentos))
           a == alocar_inode(fs)
           e == adicionar_entrada_diretorio(a.fs, fs.inodes[inode_pai_num],
                  inode_pai_num, a.ret, nome_arquivo_novo, EXT2_FT_REG_FILE)
           novo == escrever_inode(e.fs, a.ret,
                     [inode_zerado EXCEPT !.mode = EXT2_S_IFREG + PERM_ARQUIVO,
                                          !.links_count = 1,
                                          !.atime = AGORA(fs),
                                          !.ctime = AGORA(fs),
                                          !.mtime = AGORA(fs)])
       IN IF e.ret # 0
          THEN <<a.fs, e.fs, liberar_inode(e.fs, a.ret).fs>>
          ELSE <<a.fs, e.fs, novo,
                 escrever_inode(novo, inode_pai_num, [e.inode_pai EXCEPT !.mtime = AGORA(fs)])>>

RECURSIVE nao_nulos(_)
nao_nulos(s) ==
  IF s = <<>> THEN <<>>
  ELSE (IF Head(s) # 0 THEN <<Head(s)>> ELSE <<>>) \o nao_nulos(Tail(s))

RECURSIVE blocos_duplos_a_liberar(_, _, _)
blocos_duplos_a_liberar(fs, l1, i) ==
  IF i >= ponteiros_por_bloco THEN <<>>
  ELSE LET p == ponteiro(l1, i)
       IN (IF p = 0 THEN <<>>
           ELSE (IF ler_bloco_ok(fs, p) THEN nao_nulos(ponteiros_de(fs.disco[p], 0)) ELSE <<>>)
                \o <<p>>)
          \o blocos_duplos_a_liberar(fs, l1, i + 1)

\* the blocks comando_rm hands to liberar_bloco, in the order of the calls
\* (pointer blocks are read as they stand when the command starts)
blocos_a_liberar(fs, ino) ==
  nao_nulos([i \in 1..NUM_DIRETOS |-> ino.block[i - 1]])
  \o (IF ino.block[12] = 0 THEN <<>>
      ELSE (IF ler_bloco_ok(fs, ino.block[12])
            THEN nao_nulos(ponteiros_de(fs.disco[ino.block[12]], 0)) ELSE <<>>)
           \o <<ino.block[12]>>)
  \o (IF ino.block[13] = 0 THEN <<>>
      ELSE (IF ler_bloco_ok(fs, ino.block[13])
            THEN blocos_duplos_a_liberar(fs, fs.disco[ino.block[13]], 0) ELSE <<>>)
           \o <<ino.block[13]>>)

RECURSIVE liberar_blocos(_, _)
liberar_blocos(fs, blocos) ==
  IF blocos = <<>> THEN fs
  ELSE liberar_blocos(liberar_bloco(fs, Head(blocos)).fs, Tail(blocos))

\* comando_rm and comando_rmdir take basename and then dirname of one and the
\* same copy of the argument, and use the name after dirname has run.
\* dirname(3) may modify its argument and basename(3) may return a pointer
\* into it, so what the name then reads depends on the C library.  A dirname
\* that ends the copy at its last slash leaves the name as it is when a
\* component precedes that slash; when only slashes precede it (/x, //x) the
\* terminator is written after the slash kept for the result "/", that is on
\* the first byte of the name, which then reads as the empty string.  A
\* dirname that returns "/" for such a path without writing leaves the name.
\* (CAMINHOS holds no path with a name and trailing slashes.)
basename_apos_dirname(s) ==
  LET k == UltimaBarra(s, Len(s))
  IN {basename(s)}
     \cup IF s # <<>> /\ s[Len(s)] # CH_BARRA /\ k \in {1, 2}
              /\ \A i \in 1..k : s[i] = CH_BARRA
           THEN {<<>>} ELSE {}

\* nome_arquivo: the name as it reads after dirname, one of
\* basename_apos_dirname(argumentos)
comando_rm(fs, inode_dir_atual, argumentos, nome_arquivo) ==
  IF argumentos = <<>> THEN [fs |-> fs, msg |-> "faltando operando"]
  ELSE LET inode_alvo_num == caminho_para_inode(fs, inode_dir_atual, argumentos)
       IN IF inode_alvo_num = 0 THEN [fs |-> fs, msg |-> "nao encontrado"]
          ELSE IF ~ler_inode_ok(fs, inode_alvo_num) THEN [fs |-> fs, msg |-> "erro de leitura"]
          ELSE IF EXT2_IS_DIR(fs.inodes[inode_alvo_num].mode) THEN [fs |-> fs, msg |-> "e um diretorio"]
          ELSE LET inode_alvo == fs.inodes[inode_alvo_num]
                   inode_pai_num == caminho_para_inode(fs, inode_dir_atual, dirname(argumentos))
               IN IF ~ler_inode_ok(fs, inode_pai_num) THEN [fs |-> fs, msg |-> "erro de leitura"]
                  ELSE LET inode_pai == fs.inodes[inode_pai_num]
                           r == remover_entrada_diretorio(fs, inode_pai, nome_arquivo)
                           links == (inode_alvo.links_count - 1) % DOIS_16
                       IN IF r.ret # 0 THEN [fs |-> fs, msg |-> "erro ao remover a entrada"]
                          ELSE LET fs1 == IF links = 0
                                          THEN liberar_inode(
                                                 liberar_blocos(r.fs, blocos_a_liberar(r.fs, inode_alvo)),
                                                 inode_alvo_num).fs
                                          ELSE r.fs
                                   alvo1 == [inode_alvo EXCEPT !.links_count = links,
                                               !.dtime = IF links = 0 THEN AGORA(fs) ELSE @]
                               IN [fs |-> escrever_inode(escrever_inode(fs1, inode_alvo_num, alvo1),
                                                         inode_pai_num,
                                                         [inode_pai EXCEPT !.mtime = AGORA(fs),
                                                                           !.atime = AGORA(fs)]),
                                   msg |-> "ok"]

\* etapas_do_rm with the blocks and the inode released before the entry is
\* removed
etapas_do_rm_libera_antes(fs, inode_dir_atual, argumentos, nome_arquivo) ==
  IF comando_rm(fs, inode_dir_atual, argumentos, nome_arquivo).msg # "ok" THEN <<>>
  ELSE LET inode_alvo_num == caminho_para_inode(fs, inode_dir_atual, argumentos)
           inode_alvo == fs.inodes[inode_alvo_num]
           inode_pai_num == caminho_para_inode(fs, inode_dir_atual, dirname(argumentos))
           inode_pai == fs.inodes[inode_pai_num]
           links == (inode_alvo.links_count - 1) % DOIS_16
           fs1 == liberar_blocos(fs, blocos_a_liberar(fs, inode_alvo))
           fs2 == liberar_inode(fs1, inode_alvo_num).fs
           r == remover_entrada_diretorio(IF links = 0 THEN fs2 ELSE fs, inode_pai, nome_arquivo)
           fs3 == escrever_inode(r.fs, inode_alvo_num,
                    [inode_alvo EXCEPT !.links_count = links,
                                       !.dtime = IF links = 0 THEN AGORA(fs) ELSE @])
           fs4 == escrever_inode(fs3, inode_pai_num,
                    [inode_pai EXCEPT !.mtime = AGORA(fs), !.atime = AGORA(fs)])
       IN IF links = 0 THEN <<fs1, fs2, r.fs, fs3, fs4>> ELSE <<r.fs, fs3, fs4>>

\* The volume after each step of a comando_rm that removes the file, in the
\* order of the calls: remover_entrada_diretorio, then, when the last link is
\* gone, the calls of liberar_bloco (taken together) and liberar_inode, then
\* escrever_inode of the target and of the parent.  Empty when rm stops
\* before it writes.
etapas_do_rm(fs, inode_dir_atual, argumentos, nome_arquivo) ==
  IF comando_rm(fs, inode_dir_atual, argumentos, nome_arquivo).msg # "ok" THEN <<>>
  ELSE LET inode_alvo_num == caminho_para_inode(fs, inode_dir_atual, argumentos)
           inode_alvo == fs.inodes[inode_alvo_num]
           inode_pai_num == caminho_para_inode(fs, inode_dir_atual, dirname(argumentos))
           inode_pai == fs.inodes[inode_pai_num]
           r == remover_entrada_diretorio(fs, inode_pai, nome_arquivo)
           links == (inode_alvo.links_count - 1) % DOIS_16
           fs1 == liberar_blocos(r.fs, blocos_a_liberar(r.fs, inode_alvo))
           fs2 == liberar_inode(fs1, inode_alvo_num).fs
           fs3 == escrever_inode(IF links = 0 THEN fs2 ELSE r.fs, inode_alvo_num,
                    [inode_alvo EXCEPT !.links_count = links,
                                       !.dtime = IF links = 0 THEN AGORA(fs) ELSE @])
           fs4 == escrever_inode(fs3, inode_pai_num,
                    [inode_pai EXCEPT !.mtime = AGORA(fs), !.atime = AGORA(fs)])
       IN IF links = 0 THEN <<r.fs, fs1, fs2, fs3, fs4>> ELSE <<r.fs, fs3, fs4>>

\* the first block of a new directory: "." in 12 bytes, ".." in the rest
bloco_ponto_e_ponto_ponto(novo_dir_inode_num, inode_pai_num) ==
  PorEntrada(PorEntrada(BlocoZerado, 0, novo_dir_inode_num, 12, EXT2_FT_DIR, STR_PONTO),
             12, inode_pai_num, tamanho_bloco - 12, EXT2_FT_DIR, STR_PONTO_PONTO)

\* comando_mkdir whose rollback releases the inode but not the data block
comando_mkdir_sem_liberar_bloco(fs, inode_dir_atual, argumentos) ==
  IF argumentos = <<>> THEN [fs |-> fs, msg |-> "faltando operando"]
  ELSE LET dir_pai_str == dirname(argumentos)
           nome_dir_novo == basename(argumentos)
           inode_pai_num == caminho_para_inode(fs, inode_dir_atual, dir_pai_str)
       IN IF Len(nome_dir_novo) > EXT2_NAME_LEN THEN [fs |-> fs, msg |-> "nome muito longo"]
          ELSE IF inode_pai_num = 0 THEN [fs |-> fs, msg |-> "pai nao encontrado"]
          ELSE IF ~ler_inode_ok(fs, inode_pai_num) \/ ~EXT2_IS_DIR(fs.inodes[inode_pai_num].mode)
          THEN [fs |-> fs, msg |-> "nao e um diretorio"]
          ELSE IF procurar_entrada_no_diretorio(fs, inode_pai_num, nome_dir_novo) # 0
          THEN [fs |-> fs, msg |-> "ja existe"]
          ELSE LET ai == alocar_inode(fs)
               IN IF ai.ret = 0 THEN [fs |-> fs, msg |-> "falha ao alocar inode"]
                  ELSE LET ab == alocar_bloco(ai.fs, ai.ret)
                       IN IF ab.ret = 0
                          THEN [fs |-> liberar_inode(ab.fs, ai.ret).fs, msg |-> "falha ao alocar bloco"]
                          ELSE LET fs1 == escrever_bloco(ab.fs, ab.ret,
                                            bloco_ponto_e_ponto_ponto(ai.ret, inode_pai_num))
                                   fs2 == escrever_inode(fs1, ai.ret,
                                            [inode_zerado EXCEPT
                                               !.mode = EXT2_S_IFDIR + PERM_DIRETORIO,
                                               !.size = tamanho_bloco,
                                               !.links_count = 2,
                                               !.blocks = tamanho_bloco \div TAMANHO_SETOR,
                                               !.block[0] = ab.ret,
                                               !.atime = AGORA(fs),
                                               !.ctime = AGORA(fs),
                                               !.mtime = AGORA(fs)])
                                   e == adicionar_entrada_diretorio(fs2, fs.inodes[inode_pai_num],
                                          inode_pai_num, ai.ret, nome_dir_novo, EXT2_FT_DIR)
                               IN IF e.ret # 0
                                  THEN [fs |-> liberar_inode(e.fs, ai.ret).fs,
                                        msg |-> "falha ao adicionar entrada"]
                                  ELSE [fs |-> escrever_inode(e.fs, inode_pai_num,
                                                 [e.inode_pai EXCEPT
                                                    !.links_count = (@ + 1) % DOIS_16,
                                                    !.mtime = AGORA(fs)]),
                                        msg |-> "ok"]

comando_mkdir(fs, inode_dir_atual, argumentos) ==
  IF argumentos = <<>> THEN [fs |-> fs, msg |-> "faltando operando"]
  ELSE LET dir_pai_str == dirname(argumentos)
           nome_dir_novo == basename(argumentos)
           inode_pai_num == caminho_para_inode(fs, inode_dir_atual, dir_pai_str)
       IN IF Len(nome_dir_novo) > EXT2_NAME_LEN THEN [fs |-> fs, msg |-> "nome muito longo"]
          ELSE IF inode_pai_num = 0 THEN [fs |-> fs, msg |-> "pai nao encontrado"]
          ELSE IF ~ler_inode_ok(fs, inode_pai_num) \/ ~EXT2_IS_DIR(fs.inodes[inode_pai_num].mode)
          THEN [fs |-> fs, msg |-> "nao e um diretorio"]
          ELSE IF procurar_entrada_no_diretorio(fs, inode_pai_num, nome_dir_novo) # 0
          THEN [fs |-> fs, msg |-> "ja existe"]
          ELSE LET ai == alocar_inode(fs)
               IN IF ai.ret = 0 THEN [fs |-> fs, msg |-> "falha ao alocar inode"]
                  ELSE LET ab == alocar_bloco(ai.fs, ai.ret)
                       IN IF ab.ret = 0
                          THEN [fs |-> liberar_inode(ab.fs, ai.ret).fs, msg |-> "falha ao alocar bloco"]
                          ELSE LET fs1 == escrever_bloco(ab.fs, ab.ret,
                                            bloco_ponto_e_ponto_ponto(ai.ret, inode_pai_num))
                                   fs2 == escrever_inode(fs1, ai.ret,
                                            [inode_zerado EXCEPT
                                               !.mode = EXT2_S_IFDIR + PERM_DIRETORIO,
                                               !.size = tamanho_bloco,
                                               !.links_count = 2,
                                               !.blocks = tamanho_bloco \div TAMANHO_SETOR,
                                               !.block[0] = ab.ret,
                                               !.atime = AGORA(fs),
                                               !.ctime = AGORA(fs),
                                               !.mtime = AGORA(fs)])
                                   e == adicionar_entrada_diretorio(fs2, fs.inodes[inode_pai_num],
                                          inode_pai_num, ai.ret, nome_dir_novo, EXT2_FT_DIR)
                               IN IF e.ret # 0
                                  THEN [fs |-> liberar_inode(liberar_bloco(e.fs, ab.ret).fs, ai.ret).fs,
                                        msg |-> "falha ao adicionar entrada"]
                                  ELSE [fs |-> escrever_inode(e.fs, inode_pai_num,
                                                 [e.inode_pai EXCEPT
                                                    !.links_count = (@ + 1) % DOIS_16,
                                                    !.mtime = AGORA(fs)]),
                                        msg |-> "ok"]

\* The volume after each call of comando_mkdir that writes, in the order of
\* the calls: alocar_inode, alocar_bloco, escrever_bloco of the block with
\* "." and "..", escrever_inode of the new inode, adicionar_entrada_diretorio,
\* then escrever_inode of the parent, or the two releases when the entry
\* could not be added.  Empty when mkdir stops before it allocates.
etapas_do_mkdir(fs, inode_dir_atual, argumentos) ==
  IF comando_mkdir(fs, inode_dir_atual, argumentos).msg
       \notin {"ok", "falha ao alocar bloco", "falha ao adicionar entrada"}
  THEN <<>>
  ELSE LET nome_dir_novo == basename(argumentos)
           inode_pai_num == caminho_para_inode(fs, inode_dir_atual, dirname(argumentos))
           ai == alocar_inode(fs)
           ab == alocar_bloco(ai.fs, ai.ret)
           fs1 == escrever_bloco(ab.fs, ab.ret, bloco_ponto_e_ponto_ponto(ai.ret, inode_pai_num))
           fs2 == escrever_inode(fs1, ai.ret,
                    [inode_zerado EXCEPT
                       !.mode = EXT2_S_IFDIR + PERM_DIRETORIO,
                       !.size = tamanho_bloco,
                       !.links_count = 2,
                       !.blocks = tamanho_bloco \div TAMANHO_SETOR,
                       !.block[0] = ab.ret,
                       !.atime = AGORA(fs),
                       !.ctime = AGORA(fs),
                       !.mtime = AGORA(fs)])
           e == adicionar_entrada_diretorio(fs2, fs.inodes[inode_pai_num],
                  inode_pai_num, ai.ret, nome_dir_novo, EXT2_FT_DIR)
       IN IF ab.ret = 0
          THEN <<ai.fs, liberar_inode(ab.fs, ai.ret).fs>>
          ELSE IF e.ret # 0
          THEN <<ai.fs, ab.fs, fs1, fs2, e.fs, liberar_bloco(e.fs, ab.ret).fs,
                 liberar_inode(liberar_bloco(e.fs, ab.ret).fs, ai.ret).fs>>
          ELSE <<ai.fs, ab.fs, fs1, fs2, e.fs,
                 escrever_inode(e.fs, inode_pai_num,
                   [e.inode_pai EXCEPT !.links_count = (@ + 1) % DOIS_16,
                                       !.mtime = AGORA(fs)])>>

\* nome_dir_removido: the name as it reads after dirname, one of
\* basename_apos_dirname(argumentos)
comando_rmdir(fs, inode_dir_atual, argumentos, nome_dir_removido) ==
  IF argumentos = <<>> THEN [fs |-> fs, msg |-> "faltando operando"]
  ELSE IF argumentos = STR_PONTO \/ argumentos = STR_PONTO_PONTO \/ argumentos = STR_BARRA
  THEN [fs |-> fs, msg |-> "invalido ou protegido"]
  ELSE LET inode_alvo_num == caminho_para_inode(fs, inode_dir_atual, argumentos)
       IN IF inode_alvo_num = 0 THEN [fs |-> fs, msg |-> "nao encontrado"]
          ELSE IF ~ler_inode_ok(fs, inode_alvo_num) THEN [fs |-> fs, msg |-> "erro de leitura"]
          ELSE IF ~EXT2_IS_DIR(fs.inodes[inode_alvo_num].mode)
          THEN [fs |-> fs, msg |-> "nao e um diretorio"]
          ELSE LET inode_alvo == fs.inodes[inode_alvo_num]
                   inode_pai_num == caminho_para_inode(fs, inode_dir_atual, dirname(argumentos))
               IN IF ~ler_inode_ok(fs, inode_pai_num) THEN [fs |-> fs, msg |-> "erro de leitura"]
                  ELSE IF diretorio_esta_vazio(fs, inode_alvo) # 1
                  THEN [fs |-> fs, msg |-> "nao esta vazio"]
                  ELSE LET inode_pai == fs.inodes[inode_pai_num]
                           r == remover_entrada_diretorio(fs, inode_pai, nome_dir_removido)
                       IN IF r.ret # 0 THEN [fs |-> fs, msg |-> "erro ao remover a entrada"]
                          ELSE LET fs1 == liberar_bloco(r.fs, inode_alvo.block[0]).fs
                                   fs2 == escrever_inode(fs1, inode_alvo_num,
                                            [inode_alvo EXCEPT !.dtime = AGORA(fs),
                                                               !.links_count = 0])
                                   fs3 == liberar_inode(fs2, inode_alvo_num).fs
                               IN [fs |-> escrever_inode(fs3, inode_pai_num,
                                            [inode_pai EXCEPT
                                               !.links_count = (@ - 1) % DOIS_16,
                                               !.mtime = AGORA(fs)]),
                                   msg |-> "ok"]

\* The volume after each call of a comando_rmdir that removes the directory,
\* in the order of the calls: remover_entrada_diretorio, liberar_bloco of
\* block[0], escrever_inode of the target, liberar_inode, escrever_inode of
\* the parent.  Empty when rmdir stops before it writes.
etapas_do_rmdir(fs, inode_dir_atual, argumentos, nome_dir_removido) ==
  IF comando_rmdir(fs, inode_dir_atual, argumentos, nome_dir_removido).msg # "ok" THEN <<>>
  ELSE LET inode_alvo_num == caminho_para_inode(fs, inode_dir_atual, argumentos)
           inode_alvo == fs.inodes[inode_alvo_num]
           inode_pai_num == caminho_para_inode(fs, inode_dir_atual, dirname(argumentos))
           inode_pai == fs.inodes[inode_pai_num]
           r == remover_entrada_diretorio(fs, inode_pai, nome_dir_removido)
           fs1 == liberar_bloco(r.fs, inode_alvo.block[0]).fs
           fs2 == escrever_inode(fs1, inode_alvo_num,
                    [inode_alvo EXCEPT !.dtime = AGORA(fs), !.links_count = 0])
           fs3 == liberar_inode(fs2, inode_alvo_num).fs
       IN <<r.fs, fs1, fs2, fs3,
            escrever_inode(fs3, inode_pai_num,
              [inode_pai EXCEPT !.links_count = (@ - 1) % DOIS_16, !.mtime = AGORA(fs)])>>

BRANCOS == {CH_ESPACO, CH_TAB}

RECURSIVE SemBrancosIniciais(_)
SemBrancosIniciais(s) ==
  IF s # <<>> /\ Head(s) \in BRANCOS THEN SemBrancosIniciais(Tail(s)) ELSE s

RECURSIVE nome_antigo_do_parser(_, _, _, _, _, _)
\* the parser loop of comando_rename: the candidate grows by one token per
\* round, and the last candidate found in the current directory wins
nome_antigo_do_parser(fs, inode_dir_atual, tokens, k, candidato, final) ==
  IF k > Len(tokens) THEN final
  ELSE LET nome_antigo_candidato ==
             IF candidato = <<>> THEN tokens[k]
             ELSE candidato \o <<CH_ESPACO>> \o tokens[k]
       IN nome_antigo_do_parser(fs, inode_dir_atual, tokens, k + 1, nome_antigo_candidato,
            IF procurar_entrada_no_diretorio(fs, inode_dir_atual, nome_antigo_candidato) # 0
            THEN nome_antigo_candidato ELSE final)

\* the end of a rename that writes the time of the change into mtime
marcar_mtime_do_renomeado(fs, inode_dir_atual, nome_novo_final) ==
  LET inode_renomeado_num == procurar_entrada_no_diretorio(fs, inode_dir_atual, nome_novo_final)
  IN IF inode_renomeado_num # 0 /\ ler_inode_ok(fs, inode_renomeado_num)
     THEN escrever_inode(fs, inode_renomeado_num,
            [fs.inodes[inode_renomeado_num] EXCEPT !.mtime = AGORA(fs)])
     ELSE fs

\* the end of a successful comando_rename: the entry is looked up under its
\* new name and the ctime of its inode is set
marcar_ctime_do_renomeado(fs, inode_dir_atual, nome_novo_final) ==
  LET inode_renomeado_num == procurar_entrada_no_diretorio(fs, inode_dir_atual, nome_novo_final)
  IN IF inode_renomeado_num # 0 /\ ler_inode_ok(fs, inode_renomeado_num)
     THEN escrever_inode(fs, inode_renomeado_num,
            [fs.inodes[inode_renomeado_num] EXCEPT !.ctime = AGORA(fs)])
     ELSE fs
\* comando_rename that, when the new name does not fit the record, removes
\* the entry and adds it again under the new name
comando_rename_com_mudanca(fs, inode_dir_atual, argumentos) ==
  IF argumentos = <<>> THEN [fs |-> fs, msg |-> "uso"]
  ELSE LET nome_antigo_final == nome_antigo_do_parser(fs, inode_dir_atual,
                                  Tokens(argumentos, BRANCOS, <<>>), 1, <<>>, <<>>)
           nome_novo_final == SemBrancosIniciais(
                                SubSeq(argumentos, Len(nome_antigo_final) + 1, Len(argumentos)))
       IN IF nome_antigo_final = <<>> \/ nome_novo_final = <<>>
          THEN [fs |-> fs, msg |-> "origem nao encontrada ou novo nome ausente"]
          ELSE IF Len(nome_novo_final) > EXT2_NAME_LEN THEN [fs |-> fs, msg |-> "nome muito longo"]
          ELSE IF CH_BARRA \in {nome_novo_final[i] : i \in 1..Len(nome_novo_final)}
          THEN [fs |-> fs, msg |-> "novo nome contem barra"]
          ELSE IF procurar_entrada_no_diretorio(fs, inode_dir_atual, nome_novo_final) # 0
          THEN [fs |-> fs, msg |-> "ja existe"]
          ELSE IF ~ler_inode_ok(fs, inode_dir_atual) THEN [fs |-> fs, msg |-> "erro de leitura"]
          ELSE LET r == renomear_nos_slots(fs,
                          slots_do_diretorio(fs, fs.inodes[inode_dir_atual]), 1,
                          nome_antigo_final, nome_novo_final)
               IN IF r.status = 1
                  THEN [fs |-> marcar_ctime_do_renomeado(
                                 escrever_inode(r.fs, inode_dir_atual,
                                   [fs.inodes[inode_dir_atual] EXCEPT !.mtime = AGORA(fs)]),
                                 inode_dir_atual, nome_novo_final),
                        msg |-> "ok"]
                  ELSE IF r.status = 0 THEN [fs |-> fs, msg |-> "nao encontrado"]
                  ELSE [fs |-> adicionar_entrada_diretorio(
                                 remover_entrada_diretorio(
                                   fs, fs.inodes[inode_dir_atual], nome_antigo_final).fs,
                                 fs.inodes[inode_dir_atual], inode_dir_atual,
                                 procurar_entrada_no_diretorio(fs, inode_dir_atual,
                                                               nome_antigo_final),
                                 nome_novo_final, EXT2_FT_REG_FILE).fs,
                        msg |-> "ok"]


comando_rename(fs, inode_dir_atual, argumentos) ==
  IF argumentos = <<>> THEN [fs |-> fs, msg |-> "uso"]
  ELSE LET nome_antigo_final == nome_antigo_do_parser(fs, inode_dir_atual,
                                  Tokens(argumentos, BRANCOS, <<>>), 1, <<>>, <<>>)
           nome_novo_final == SemBrancosIniciais(
                                SubSeq(argumentos, Len(nome_antigo_final) + 1, Len(argumentos)))
       IN IF nome_antigo_final = <<>> \/ nome_novo_final = <<>>
          THEN [fs |-> fs, msg |-> "origem nao encontrada ou novo nome ausente"]
          ELSE IF Len(nome_novo_final) > EXT2_NAME_LEN THEN [fs |-> fs, msg |-> "nome muito longo"]
          ELSE IF CH_BARRA \in {nome_novo_final[i] : i \in 1..Len(nome_novo_final)}
          THEN [fs |-> fs, msg |-> "novo nome contem barra"]
          ELSE IF procurar_entrada_no_diretorio(fs, inode_dir_atual, nome_novo_final) # 0
          THEN [fs |-> fs, msg |-> "ja existe"]
          ELSE IF ~ler_inode_ok(fs, inode_dir_atual) THEN [fs |-> fs, msg |-> "erro de leitura"]
          ELSE LET r == renomear_nos_slots(fs,
                          slots_do_diretorio(fs, fs.inodes[inode_dir_atual]), 1,
                          nome_antigo_final, nome_novo_final)
               IN IF r.status = 1
                  THEN [fs |-> marcar_ctime_do_renomeado(
                                 escrever_inode(r.fs, inode_dir_atual,
                                   [fs.inodes[inode_dir_atual] EXCEPT !.mtime = AGORA(fs)]),
                                 inode_dir_atual, nome_novo_final),
                        msg |-> "ok"]
                  ELSE IF r.status = 0 THEN [fs |-> fs, msg |-> "nao encontrado"]
                  ELSE [fs |-> fs, msg |-> "novo nome nao cabe"]

\* Returns the new diretorio_atual_inode
comando_cd(fs, inode_dir_atual, argumentos) ==
  IF argumentos = <<>> THEN inode_dir_atual
  ELSE LET inode_destino == caminho_para_inode(fs, inode_dir_atual, argumentos)
       IN IF inode_destino = 0 THEN inode_dir_atual
          ELSE IF ~ler_inode_ok(fs, inode_destino) THEN inode_dir_atual
          ELSE IF ~EXT2_IS_DIR(fs.inodes[inode_destino].mode) THEN inode_dir_atual
          ELSE inode_destino

-----------------------------------------------------------------------------
(* File reader.  The state of a read is est = [buffer, erro]: buffer holds
   the bytes copied so far (bytes_lidos is its length; what lies beyond it
   in the malloc'ed area is never written), erro is the jump to the label
   erro, after which NULL is returned. *)

copiar_bloco_de_dados(fs, num_bloco, file_ino, est) ==
  IF est.erro THEN est
  ELSE IF num_bloco = 0 \/ Len(est.buffer) >= file_ino.size THEN est
  ELSE IF ~ler_bloco_ok(fs, num_bloco) THEN [est EXCEPT !.erro = TRUE]
  ELSE LET bytes_para_copiar ==
             IF Len(est.buffer) + tamanho_bloco > file_ino.size
             THEN file_ino.size - Len(est.buffer)
             ELSE tamanho_bloco
       IN [est EXCEPT !.buffer = @ \o SubSeq(fs.disco[num_bloco], 1, bytes_para_copiar)]

RECURSIVE copiar_blocos(_, _, _, _)
\* a for loop that hands the pointers ps, in order, to copiar_bloco_de_dados
copiar_blocos(fs, ps, file_ino, est) ==
  IF ps = <<>> THEN est
  ELSE copiar_blocos(fs, Tail(ps), file_ino,
                     copiar_bloco_de_dados(fs, Head(ps), file_ino, est))

RECURSIVE copiar_por_L2(_, _, _, _)
\* the loop over the pointers ps to L2 blocks: zero and unreadable ones are
\* passed over
copiar_por_L2(fs, ps, file_ino, est) ==
  IF ps = <<>> THEN est
  ELSE copiar_por_L2(fs, Tail(ps), file_ino,
         IF Head(ps) # 0 /\ ler_bloco_ok(fs, Head(ps))
         THEN copiar_blocos(fs, ponteiros_de(fs.disco[Head(ps)], 0), file_ino, est)
         ELSE est)

RECURSIVE copiar_por_L1(_, _, _, _)
\* the loop over the pointers ps of the triple-indirect block
copiar_por_L1(fs, ps, file_ino, est) ==
  IF ps = <<>> THEN est
  ELSE copiar_por_L1(fs, Tail(ps), file_ino,
         IF Head(ps) # 0 /\ ler_bloco_ok(fs, Head(ps))
         THEN copiar_por_L2(fs, ponteiros_de(fs.disco[Head(ps)], 0), file_ino, est)
         ELSE est)

\* one indirection level of ler_conteudo_arquivo (nivel 1 for block[12], 2
\* for block[13], 3 for block[14]): entered only while bytes are missing and
\* the pointer is set; an unreadable pointer block is skipped
nivel_indireto(fs, file_ino, nivel, est) ==
  LET p == file_ino.block[NUM_DIRETOS + nivel - 1]
  IN IF ~est.erro /\ Len(est.buffer) < file_ino.size /\ p # 0 /\ ler_bloco_ok(fs, p)
     THEN IF nivel = 1 THEN copiar_blocos(fs, ponteiros_de(fs.disco[p], 0), file_ino, est)
          ELSE IF nivel = 2 THEN copiar_por_L2(fs, ponteiros_de(fs.disco[p], 0), file_ino, est)
          ELSE copiar_por_L1(fs, ponteiros_de(fs.disco[p], 0), file_ino, est)
     ELSE est

\* status 0 with the bytes copied, or -1 for NULL
ler_conteudo_arquivo(fs, file_ino) ==
  IF file_ino.size = 0 THEN [buffer |-> <<>>, status |-> 0]
  ELSE LET e0 == copiar_blocos(fs, [i \in 1..NUM_DIRETOS |-> file_ino.block[i - 1]],
                               file_ino, [buffer |-> <<>>, erro |-> FALSE])
           e1 == nivel_indireto(fs, file_ino, 1, e0)
           e2 == nivel_indireto(fs, file_ino, 2, e1)
           e3 == nivel_indireto(fs, file_ino, 3, e2)
       IN IF e3.erro THEN [buffer |-> <<>>, status |-> -1]
          ELSE [buffer |-> e3.buffer, status |-> 0]

-----------------------------------------------------------------------------
(* Volumes.  A small volume laid out as mkfs lays out a 1 KiB-block volume:
   block 0 boot, block 1 superblock, block 2 descriptors, then per group the
   block bitmap, the inode bitmap, the inode table and the data blocks.
   Bits of the last group's block bitmap beyond the end of the volume are set,
   the inodes of group 0 are the reserved ones. *)

BLOCKS_COUNT == 14
BLOCKS_PER_GROUP == 8
INODES_PER_GROUP == 4
INODES_COUNT == 8
FIRST_DATA_BLOCK == 1
BLOCO_RAIZ == 6
INODE_ARQUIVO == 7

BitmapDe(S) ==
  [i \in 1..tamanho_bloco |->
     LET v(k) == IF (8 * (i - 1) + k) \in S THEN Pot2(k) ELSE 0
     IN v(0) + v(1) + v(2) + v(3) + v(4) + v(5) + v(6) + v(7)]

NOME_A == <<97>>
NOME_B == <<98>>

inode_raiz ==
  [inode_zerado EXCEPT !.mode = EXT2_S_IFDIR + PERM_DIRETORIO, !.size = tamanho_bloco,
                       !.links_count = 2, !.blocks = tamanho_bloco \div TAMANHO_SETOR,
                       !.block[0] = BLOCO_RAIZ]

sb_inicial(livres_b, livres_i) ==
  [inodes_count |-> INODES_COUNT, blocks_count |-> BLOCKS_COUNT,
   free_blocks_count |-> livres_b, free_inodes_count |-> livres_i,
   first_data_block |-> FIRST_DATA_BLOCK, blocks_per_group |-> BLOCKS_PER_GROUP,
   inodes_per_group |-> INODES_PER_GROUP]

gdt_inicial(livres_b0, livres_b1, livres_i1) ==
  [g \in 0..1 |->
     IF g = 0
     THEN [block_bitmap |-> 3, inode_bitmap |-> 4, inode_table |-> 5,
           free_blocks_count |-> livres_b0, free_inodes_count |-> 0]
     ELSE [block_bitmap |-> 9, inode_bitmap |-> 10, inode_table |-> 11,
           free_blocks_count |-> livres_b1, free_inodes_count |-> livres_i1]]

\* A freshly made volume: the root holds "." and ".." only.
VolumeNovo ==
  [relogio |-> 1,
   sb |-> sb_inicial(4, 4),
   gdt |-> gdt_inicial(2, 2, 4),
   inodes |-> [n \in 1..INODES_COUNT |-> IF n = EXT2_ROOT_INO THEN inode_raiz ELSE inode_zerado],
   disco |-> [n \in 0..(BLOCKS_COUNT - 1) |->
                CASE n = 3 -> BitmapDe(0..5)
                  [] n = 4 -> BitmapDe(0..3)
                  [] n = 9 -> BitmapDe((0..2) \cup (5..7))
                  [] n = 10 -> BitmapDe({})
                  [] n = BLOCO_RAIZ -> bloco_ponto_e_ponto_ponto(EXT2_ROOT_INO, EXT2_ROOT_INO)
                  [] OTHER -> BlocoZerado]]

RECURSIVE executar(_, _)
\* the file system after the shell has run a list of <<command, argument>>
\* lines from the root directory
executar(fs, linhas) ==
  IF linhas = <<>> THEN fs
  ELSE LET l == Head(linhas)
       IN executar(IF l[1] = "touch" THEN comando_touch(fs, EXT2_ROOT_INO, l[2]).fs
                   ELSE comando_rm(fs, EXT2_ROOT_INO, l[2], l[2]).fs,
                   Tail(linhas))

NOME_P == <<112>>
NOME_Q == <<113>>
NOME_ABCDE == <<97, 98, 99, 100, 101>>

\* A volume in use: the fresh volume after
\*   touch p; touch q; touch abcde; rm abcde; touch a; rm p; rm q
\* The first block of the root now reads "." (12), ".." (36, the records of
\* p and q coalesced into it) and the file "a" (16, inode 7): the last entry
\* has 4 bytes of slack, and the bytes after its name are what is left of
\* the name "abcde" that lay there before.
VolumeUsado ==
  executar(VolumeNovo,
           << <<"touch", NOME_P>>, <<"touch", NOME_Q>>, <<"touch", NOME_ABCDE>>,
              <<"rm", NOME_ABCDE>>, <<"touch", NOME_A>>, <<"rm", NOME_P>>,
              <<"rm", NOME_Q>> >>)

-----------------------------------------------------------------------------
(* ls: what comando_ls prints for a directory *)

RECURSIVE imprimir_entradas_de_bloco_dir(_, _)
\* the entries printed for one block, from offset on: the live records, up
\* to a record of length 0 or to the record that reaches the end of the block.
\* A record header that would run over the end of the buffer ends the walk.
imprimir_entradas_de_bloco_dir(buffer, offset) ==
  IF offset >= tamanho_bloco THEN <<>>
  ELSE IF offset + TAMANHO_CABECALHO_ENTRADA_DIR > tamanho_bloco THEN <<>>
  ELSE IF e_rec_len(buffer, offset) = 0 THEN <<>>
  ELSE (IF e_inode(buffer, offset) # 0
        THEN <<[inode |-> e_inode(buffer, offset), nome |-> e_name(buffer, offset)]>>
        ELSE <<>>)
       \o (IF offset + e_rec_len(buffer, offset) >= tamanho_bloco THEN <<>>
           ELSE imprimir_entradas_de_bloco_dir(buffer, offset + e_rec_len(buffer, offset)))

\* `if (p == 0) break;`: the pointers of a loop of ls before the first zero
ate_o_zero(ps) ==
  SubSeq(ps, 1, primeiro_de({k \in DOMAIN ps : ps[k] = 0}, Len(ps) + 1) - 1)

RECURSIVE blocos_duplos_do_ls(_, _, _)
\* the data blocks that ls reaches through the L1 pointers l1s, from index i
blocos_duplos_do_ls(fs, l1s, i) ==
  IF i > Len(l1s) THEN <<>>
  ELSE (IF ler_bloco_ok(fs, l1s[i]) THEN ate_o_zero(ponteiros_de(fs.disco[l1s[i]], 0))
        ELSE <<>>)
       \o blocos_duplos_do_ls(fs, l1s, i + 1)

\* the data blocks of the directory in the order in which ls reads them
blocos_do_ls(fs, ino) ==
  ate_o_zero([i \in 1..NUM_DIRETOS |-> ino.block[i - 1]])
  \o (IF ino.block[12] # 0 /\ ler_bloco_ok(fs, ino.block[12])
      THEN ate_o_zero(ponteiros_de(fs.disco[ino.block[12]], 0)) ELSE <<>>)
  \o (IF ino.block[13] # 0 /\ ler_bloco_ok(fs, ino.block[13])
      THEN blocos_duplos_do_ls(fs, ate_o_zero(ponteiros_de(fs.disco[ino.block[13]], 0)), 1)
      ELSE <<>>)

RECURSIVE imprimir_blocos(_, _, _)
imprimir_blocos(fs, blocos, k) ==
  IF k > Len(blocos) THEN <<>>
  ELSE (IF ler_bloco_ok(fs, blocos[k])
        THEN imprimir_entradas_de_bloco_dir(fs.disco[blocos[k]], 0) ELSE <<>>)
       \o imprimir_blocos(fs, blocos, k + 1)

\* comando_ls for a path that resolves to inode_a_listar: the entries printed
\* for a directory; for anything else ls prints the path and no entry
comando_ls(fs, inode_a_listar) ==
  IF inode_a_listar = 0 \/ ~ler_inode_ok(fs, inode_a_listar) THEN <<>>
  ELSE IF ~EXT2_IS_DIR(fs.inodes[inode_a_listar].mode) THEN <<>>
  ELSE imprimir_blocos(fs, blocos_do_ls(fs, fs.inodes[inode_a_listar]), 1)

-----------------------------------------------------------------------------
(* The shell: one action per command of the loop of main *)

CAMINHOS ==
  { NOME_A, NOME_B,
    <<97, 47, 98>>,             \* a/b
    <<47, 97>>,                 \* /a
    STR_PONTO, STR_PONTO_PONTO, STR_BARRA,
    <<97, 47, 46>>,             \* a/.
    <<47, 97, 47, 46, 46>>,     \* /a/..
    <<>> }

ARGS_RENAME ==
  { <<97, 32, 98>>,             \* a b
    <<98, 32, 97>>,             \* b a
    <<46, 32, 98>>,             \* . b
    <<98, 32, 46>>,             \* b .
    <<46, 46, 32, 98>>,         \* .. b
    <<98, 32, 46, 46>>,         \* b ..
    <<97, 32>> \o NOME_ABCDE,   \* a abcde
    <<>> }

ARGS_CD == { NOME_A, STR_PONTO_PONTO, <<>> }

\* The shell loop is unbounded; the model reads at most MaxComandos lines.
MaxComandos == 4

par_nenhum == [fase |-> 0, op |-> "", arg |-> <<>>, antes |-> <<>>]
ult_nenhum == [op |-> "", arg |-> <<>>, msg |-> "", ret |-> 0, mudou |-> FALSE]

INVERSA == [touch |-> "rm", mkdir |-> "rmdir", rename |-> "rename",
            alocar_inode |-> "liberar_inode", alocar_bloco |-> "liberar_bloco"]

\* the argument that undoes a command
arg_inverso(op, arg) ==
  IF op = "rename"
  THEN LET t == Tokens(arg, BRANCOS, <<>>)
       IN IF Len(t) = 2 THEN t[2] \o <<CH_ESPACO>> \o t[1] ELSE <<>>
  ELSE arg

\* One command: r is what the command returns for the current state.  ult
\* records it; par follows a successful touch, mkdir or rename that is undone
\* by the very next command, keeping the state from before the pair.
Passo(op, arg, r) ==
  /\ passos < MaxComandos
  /\ passos' = passos + 1
  /\ sb' = r.fs.sb
  /\ gdt' = r.fs.gdt
  /\ inodes' = r.fs.inodes
  /\ disco' = r.fs.disco
  /\ ult' = [op |-> op, arg |-> arg, msg |-> r.msg, ret |-> 0, mudou |-> r.fs # FS]
  /\ par' = IF r.msg # "ok" THEN par_nenhum
            ELSE IF par.fase = 1 /\ INVERSA[par.op] = op /\ arg_inverso(par.op, par.arg) = arg
            THEN [par EXCEPT !.fase = 2]
            ELSE IF op \in DOMAIN INVERSA
            THEN [fase |-> 1, op |-> op, arg |-> arg,
                  antes |-> [fs |-> FS, dir_atual |-> dir_atual]]
            ELSE par_nenhum
  /\ UNCHANGED dir_atual

Touch == \E argumentos \in CAMINHOS : Passo("touch", argumentos, comando_touch(FS, dir_atual, argumentos))
Rm ==
  \E argumentos \in CAMINHOS :
    \E nome_arquivo \in basename_apos_dirname(argumentos) :
      Passo("rm", argumentos, comando_rm(FS, dir_atual, argumentos, nome_arquivo))
Mkdir == \E argumentos \in CAMINHOS : Passo("mkdir", argumentos, comando_mkdir(FS, dir_atual, argumentos))
Rmdir ==
  \E argumentos \in CAMINHOS :
    \E nome_dir_removido \in basename_apos_dirname(argumentos) :
      Passo("rmdir", argumentos, comando_rmdir(FS, dir_atual, argumentos, nome_dir_removido))
Rename == \E argumentos \in ARGS_RENAME : Passo("rename", argumentos, comando_rename(FS, dir_atual, argumentos))

Cd ==
  \E argumentos \in ARGS_CD :
    /\ passos < MaxComandos
    /\ passos' = passos + 1
    /\ dir_atual' = comando_cd(FS, dir_atual, argumentos)
    /\ ult' = [op |-> "cd", arg |-> argumentos, msg |-> "", ret |-> 0, mudou |-> FALSE]
    /\ par' = par_nenhum
    /\ UNCHANGED <<sb, gdt, inodes, disco>>

Init ==
  /\ passos = 0
  /\ \E v \in {VolumeNovo, VolumeUsado} :
       /\ sb = v.sb
       /\ gdt = v.gdt
       /\ inodes = v.inodes
       /\ disco = v.disco
  /\ dir_atual = EXT2_ROOT_INO
  /\ ult = ult_nenhum
  /\ par = par_nenhum

Next == Touch \/ Rm \/ Mkdir \/ Rmdir \/ Rename \/ Cd

Spec == Init /\ [][Next]_vars

-----------------------------------------------------------------------------
(* The allocator called directly, in any order, between commands *)

INODES_A_LIBERAR == {0, EXT2_ROOT_INO, 5, INODE_ARQUIVO, INODES_COUNT, INODES_COUNT + 1}
BLOCOS_A_LIBERAR == {0, BLOCO_RAIZ, 7, 8, 12, 13, BLOCKS_COUNT}
INODES_DONOS == {EXT2_ROOT_INO, INODE_ARQUIVO}

\* One call of an allocator function: r is what it returns for the current
\* state.  A successful allocation starts a pair; the release of the number
\* it returned, as the very next call, completes it.
PassoAlocador(op, arg, r, alocou) ==
  /\ passos < MaxComandos
  /\ passos' = passos + 1
  /\ sb' = r.fs.sb
  /\ gdt' = r.fs.gdt
  /\ inodes' = r.fs.inodes
  /\ disco' = r.fs.disco
  /\ ult' = [op |-> op, arg |-> arg, msg |-> "", ret |-> r.ret, mudou |-> r.fs # FS]
  /\ par' = IF alocou /\ r.ret # 0
            THEN [fase |-> 1, op |-> op, arg |-> <<r.ret>>,
                  antes |-> [fs |-> FS, dir_atual |-> dir_atual]]
            ELSE IF ~alocou /\ r.ret = 0
                    /\ par.fase = 1 /\ INVERSA[par.op] = op /\ par.arg = arg
            THEN [par EXCEPT !.fase = 2]
            ELSE par_nenhum
  /\ UNCHANGED dir_atual

AlocarInode == PassoAlocador("alocar_inode", <<>>, alocar_inode(FS), TRUE)

LiberarInode ==
  \E inode_num \in INODES_A_LIBERAR :
    PassoAlocador("liberar_inode", <<inode_num>>, liberar_inode(FS, inode_num), FALSE)

AlocarBloco ==
  \E inode_num \in INODES_DONOS :
    PassoAlocador("alocar_bloco", <<inode_num>>, alocar_bloco(FS, inode_num), TRUE)

LiberarBloco ==
  \E num_bloco \in BLOCOS_A_LIBERAR :
    PassoAlocador("liberar_bloco", <<num_bloco>>, liberar_bloco(FS, num_bloco), FALSE)

NextAlocador ==
  \/ AlocarInode \/ LiberarInode \/ AlocarBloco \/ LiberarBloco
  \/ Touch \/ Rm \/ Mkdir \/ Rmdir

SpecAlocador == Init /\ [][NextAlocador]_vars

-----------------------------------------------------------------------------
(* Reading files: volumes that hold one regular file, inode INODE_ARQUIVO,
   whose blocks are 7, 8, 12 and 13 in different arrangements, and the
   reader applied to it *)

\* a data block whose every byte is v
dados_de(v) == [i \in 1..tamanho_bloco |-> v]

RECURSIVE bloco_de_ponteiros(_, _, _)
\* a pointer block that starts with the pointers ps, from index i on
bloco_de_ponteiros(b, ps, i) ==
  IF ps = <<>> THEN b
  ELSE bloco_de_ponteiros(PorPonteiro(b, i, Head(ps)), Tail(ps), i + 1)

ponteiros(ps) == bloco_de_ponteiros(BlocoZerado, ps, 0)

\* block[] of an inode from the pairs index :> block number
blocos_do_inode(f) ==
  [i \in 0..(EXT2_N_BLOCKS - 1) |-> IF i \in DOMAIN f THEN f[i] ELSE 0]

\* Arrangements: the block array of the file and the contents of blocks 7,
\* 8, 12 and 13.  A zero pointer before the last block is a hole of a sparse
\* file; BLOCKS_COUNT is a block number past the end of the volume.
ARRANJOS ==
  { \* three data blocks in the first direct slots
    [block |-> blocos_do_inode(0 :> 7 @@ 1 :> 8 @@ 2 :> 12),
     conteudo |-> 7 :> dados_de(7) @@ 8 :> dados_de(8) @@ 12 :> dados_de(12) @@ 13 :> BlocoZerado],
    \* a hole at logical block 0
    [block |-> blocos_do_inode(1 :> 7 @@ 2 :> 8),
     conteudo |-> 7 :> dados_de(7) @@ 8 :> dados_de(8) @@ 12 :> BlocoZerado @@ 13 :> BlocoZerado],
    \* a hole at logical block 1
    [block |-> blocos_do_inode(0 :> 7 @@ 2 :> 8),
     conteudo |-> 7 :> dados_de(7) @@ 8 :> dados_de(8) @@ 12 :> BlocoZerado @@ 13 :> BlocoZerado],
    \* one direct block, two under the single-indirect block 12
    [block |-> blocos_do_inode(0 :> 7 @@ 12 :> 12),
     conteudo |-> 7 :> dados_de(7) @@ 8 :> dados_de(8) @@ 12 :> ponteiros(<<8, 13>>)
                  @@ 13 :> dados_de(13)],
    \* two blocks under the double-indirect block 13
    [block |-> blocos_do_inode(13 :> 13),
     conteudo |-> 7 :> dados_de(7) @@ 8 :> dados_de(8) @@ 12 :> ponteiros(<<7, 8>>)
                  @@ 13 :> ponteiros(<<0, 12>>)],
    \* one block under the triple-indirect block 13
    [block |-> blocos_do_inode(14 :> 13),
     conteudo |-> 7 :> dados_de(7) @@ 8 :> ponteiros(<<0, 7>>) @@ 12 :> ponteiros(<<8>>)
                  @@ 13 :> ponteiros(<<12>>)],
    \* a direct pointer past the end of the volume
    [block |-> blocos_do_inode(0 :> 7 @@ 1 :> BLOCKS_COUNT),
     conteudo |-> 7 :> dados_de(7) @@ 8 :> BlocoZerado @@ 12 :> BlocoZerado @@ 13 :> BlocoZerado],
    \* a single-indirect pointer past the end of the volume
    [block |-> blocos_do_inode(0 :> 7 @@ 12 :> BLOCKS_COUNT),
     conteudo |-> 7 :> dados_de(7) @@ 8 :> BlocoZerado @@ 12 :> BlocoZerado @@ 13 :> BlocoZerado],
    \* no block at all
    [block |-> blocos_do_inode(<<>>),
     conteudo |-> 7 :> BlocoZerado @@ 8 :> BlocoZerado @@ 12 :> BlocoZerado @@ 13 :> BlocoZerado] }

TAMANHOS ==
  {0, 1, tamanho_bloco - 1, tamanho_bloco, tamanho_bloco + 1,
   2 * tamanho_bloco, 2 * tamanho_bloco + 1, 3 * tamanho_bloco}

\* the fresh volume with the file in inode INODE_ARQUIVO and every block and
\* that inode marked in use
VolumeComArquivo(arranjo, tamanho) ==
  [relogio |-> 1,
   sb |-> sb_inicial(0, 3),
   gdt |-> gdt_inicial(0, 0, 3),
   inodes |-> [VolumeNovo.inodes EXCEPT ![INODE_ARQUIVO] =
                 [inode_zerado EXCEPT !.mode = EXT2_S_IFREG + PERM_ARQUIVO,
                                      !.links_count = 1,
                                      !.size = tamanho,
                                      !.block = arranjo.block]],
   disco |-> [n \in 0..(BLOCKS_COUNT - 1) |->
                CASE n \in DOMAIN arranjo.conteudo -> arranjo.conteudo[n]
                  [] n = 3 -> BitmapDe(0..7)
                  [] n = 9 -> BitmapDe(0..7)
                  [] n = 10 -> BitmapDe({INODE_ARQUIVO - INODES_PER_GROUP - 1})
                  [] OTHER -> VolumeNovo.disco[n]]]

InitLeitor ==
  /\ \E arranjo \in ARRANJOS, tamanho \in TAMANHOS :
       /\ sb = VolumeComArquivo(arranjo, tamanho).sb
       /\ gdt = VolumeComArquivo(arranjo, tamanho).gdt
       /\ inodes = VolumeComArquivo(arranjo, tamanho).inodes
       /\ disco = VolumeComArquivo(arranjo, tamanho).disco
  /\ dir_atual = EXT2_ROOT_INO
  /\ ult = ult_nenhum
  /\ par = par_nenhum
  /\ passos = 0

\* ler_conteudo_arquivo on the inode of the file; ult keeps what it returned:
\* the bytes copied in arg, their number in ret
LerArquivo ==
  /\ passos < MaxComandos
  /\ passos' = passos + 1
  /\ LET r == ler_conteudo_arquivo(FS, inodes[INODE_ARQUIVO])
     IN ult' = [op |-> "ler_conteudo_arquivo", arg |-> r.buffer,
                msg |-> IF r.status = 0 THEN "ok" ELSE "erro de leitura",
                ret |-> Len(r.buffer), mudou |-> FALSE]
  /\ UNCHANGED <<sb, gdt, inodes, disco, dir_atual, par>>

NextLeitor == LerArquivo

SpecLeitor == InitLeitor /\ [][NextLeitor]_vars

-----------------------------------------------------------------------------
(* The shell on volumes that have been in use for long: one group, the root
   with the directory a, and a with n data blocks under its direct,
   single-indirect and double-indirect slots *)

BLOCO_DE_A == 7
INODE_DE_A == 5
INODE_LONGO == 6
INODE_DE_B == 7
DIRETOS_E_SIMPLES == NUM_DIRETOS + ponteiros_por_bloco

\* a name of n bytes "x"
NOME_LONGO(n) == [i \in 1..n |-> 120]

\* A block whose only record is deleted and leaves no room for an entry:
\* what is left of a block made for a file with a name of 45 bytes after
\* rm has removed that file.
BlocoSoLapide ==
  PorEntrada(BlocoZerado, 0, 0, tamanho_bloco, EXT2_FT_REG_FILE, NOME_LONGO(45))

\* the first block of a: "." and "..", and, when cheio, a file with a name
\* of 29 bytes whose record takes the rest of the block to the last byte
PrimeiroBlocoDeA(cheio) ==
  IF cheio
  THEN PorEntrada(
         PorEntrada(bloco_ponto_e_ponto_ponto(INODE_DE_A, EXT2_ROOT_INO),
                    12, EXT2_ROOT_INO, 12, EXT2_FT_DIR, STR_PONTO_PONTO),
         24, INODE_LONGO, tamanho_bloco - 24, EXT2_FT_REG_FILE, NOME_LONGO(29))
  ELSE bloco_ponto_e_ponto_ponto(INODE_DE_A, EXT2_ROOT_INO)

\* the block of the root: ".", ".." and "a"
BlocoDaRaizComA ==
  PorEntrada(
    PorEntrada(bloco_ponto_e_ponto_ponto(EXT2_ROOT_INO, EXT2_ROOT_INO),
               12, EXT2_ROOT_INO, 12, EXT2_FT_DIR, STR_PONTO_PONTO),
    24, INODE_DE_A, tamanho_bloco - 24, EXT2_FT_DIR, NOME_A)

\* The volume.  a has the n data blocks BLOCO_DE_A .. BLOCO_DE_A + n - 1: the
\* first as PrimeiroBlocoDeA(cheio), the others with a deleted record only,
\* but for the last, which holds the file b when vivo.  The pointer blocks
\* follow the data blocks: the single-indirect block, the L1 block, the L2
\* blocks.  livres free blocks end the volume.
VolumeComDiretorio(n, cheio, vivo, livres) ==
  LET num_l2 == IF n > DIRETOS_E_SIMPLES
                THEN (n - DIRETOS_E_SIMPLES + ponteiros_por_bloco - 1) \div ponteiros_por_bloco
                ELSE 0
      num_ponteiros == (IF n > NUM_DIRETOS THEN 1 ELSE 0)
                       + (IF n > DIRETOS_E_SIMPLES THEN 1 + num_l2 ELSE 0)
      simples == BLOCO_DE_A + n
      l1 == BLOCO_DE_A + n + 1
      ultimo_dado == BLOCO_DE_A + n - 1
      ultimo_usado == ultimo_dado + num_ponteiros
      blocks_count == ultimo_usado + 1 + livres
      inodes_usados == (1..INODE_DE_A) \cup (IF cheio THEN {INODE_LONGO} ELSE {})
                       \cup (IF vivo THEN {INODE_DE_B} ELSE {})
      arquivo == [inode_zerado EXCEPT !.mode = EXT2_S_IFREG + PERM_ARQUIVO, !.links_count = 1]
      dados_de_l2(j) ==
        [i \in 1..Min(ponteiros_por_bloco, n - DIRETOS_E_SIMPLES - ponteiros_por_bloco * j) |->
           BLOCO_DE_A + DIRETOS_E_SIMPLES + ponteiros_por_bloco * j + i - 1]
  IN [relogio |-> 1,
      sb |-> [inodes_count |-> INODES_COUNT, blocks_count |-> blocks_count,
              free_blocks_count |-> livres,
              free_inodes_count |-> INODES_COUNT - Cardinality(inodes_usados),
              first_data_block |-> FIRST_DATA_BLOCK,
              blocks_per_group |-> 8 * tamanho_bloco,
              inodes_per_group |-> INODES_COUNT],
      gdt |-> [g \in {0} |->
                 [block_bitmap |-> 3, inode_bitmap |-> 4, inode_table |-> 5,
                  free_blocks_count |-> livres,
                  free_inodes_count |-> INODES_COUNT - Cardinality(inodes_usados)]],
      inodes |-> [k \in 1..INODES_COUNT |->
                    CASE k = EXT2_ROOT_INO -> [inode_raiz EXCEPT !.links_count = 3]
                      [] k = INODE_DE_A ->
                           [inode_zerado EXCEPT
                              !.mode = EXT2_S_IFDIR + PERM_DIRETORIO,
                              !.links_count = 2,
                              !.size = n * tamanho_bloco,
                              !.blocks = (n + num_ponteiros) * (tamanho_bloco \div TAMANHO_SETOR),
                              !.block = [i \in 0..(EXT2_N_BLOCKS - 1) |->
                                           CASE i < NUM_DIRETOS /\ i < n -> BLOCO_DE_A + i
                                             [] i = 12 /\ n > NUM_DIRETOS -> simples
                                             [] i = 13 /\ n > DIRETOS_E_SIMPLES -> l1
                                             [] OTHER -> 0]]
                      [] k = INODE_LONGO /\ cheio -> arquivo
                      [] k = INODE_DE_B /\ vivo -> arquivo
                      [] OTHER -> inode_zerado],
      disco |-> [b \in 0..(blocks_count - 1) |->
                   CASE b = 3 -> BitmapDe((0..(ultimo_usado - 1))
                                          \cup ((blocks_count - 1)..(8 * tamanho_bloco - 1)))
                     [] b = 4 -> BitmapDe({k - 1 : k \in inodes_usados}
                                          \cup (INODES_COUNT..(8 * tamanho_bloco - 1)))
                     [] b = BLOCO_RAIZ -> BlocoDaRaizComA
                     [] b = BLOCO_DE_A -> PrimeiroBlocoDeA(cheio)
                     [] b > BLOCO_DE_A /\ b < ultimo_dado -> BlocoSoLapide
                     [] b > BLOCO_DE_A /\ b = ultimo_dado ->
                          IF vivo
                          THEN PorEntrada(BlocoZerado, 0, INODE_DE_B, tamanho_bloco,
                                          EXT2_FT_REG_FILE, NOME_B)
                          ELSE BlocoSoLapide
                     [] b = simples /\ n > NUM_DIRETOS ->
                          ponteiros([i \in 1..(Min(n, DIRETOS_E_SIMPLES) - NUM_DIRETOS) |->
                                       BLOCO_DE_A + NUM_DIRETOS + i - 1])
                     [] b = l1 /\ n > DIRETOS_E_SIMPLES ->
                          ponteiros([j \in 1..num_l2 |-> l1 + j])
                     [] b > l1 /\ b <= ultimo_usado /\ n > DIRETOS_E_SIMPLES ->
                          ponteiros(dados_de_l2(b - l1 - 1))
                     [] OTHER -> BlocoZerado]]

\* The volumes: [n, cheio, vivo, livres].
IMAGENS ==
  { \* b is the only file of a, in a block of the single-indirect block
    <<13, FALSE, TRUE, 2>>,
    \* b is the only file of a, in a block of the double-indirect tree
    <<29, FALSE, TRUE, 2>>,
    \* a holds nothing but deleted records
    <<13, FALSE, FALSE, 2>>,
    \* the first block of a is full and b is alone in the last one
    <<13, TRUE, TRUE, 1>>,
    \* a has one block, without room, and the volume no free block, or one
    <<1, TRUE, FALSE, 0>>, <<1, TRUE, FALSE, 1>>,
    \* the direct slots of a are taken, none has room
    <<12, TRUE, FALSE, 1>>, <<12, TRUE, FALSE, 2>>,
    \* a single-indirect block with a free slot
    <<13, TRUE, FALSE, 1>>,
    \* the single-indirect block is full, no double-indirect tree yet
    <<28, TRUE, FALSE, 1>>, <<28, TRUE, FALSE, 2>>, <<28, TRUE, FALSE, 3>> }

ComandosPorImagem == 2

InitImagens ==
  /\ passos = MaxComandos - ComandosPorImagem
  /\ \E i \in IMAGENS :
       LET v == VolumeComDiretorio(i[1], i[2], i[3], i[4])
       IN /\ sb = v.sb
          /\ gdt = v.gdt
          /\ inodes = v.inodes
          /\ disco = v.disco
  /\ dir_atual = EXT2_ROOT_INO
  /\ ult = ult_nenhum
  /\ par = par_nenhum

SpecImagens == InitImagens /\ [][Next]_vars

-----------------------------------------------------------------------------
(* The shell on volumes where the directory a has every slot of its pointer
   tree taken, to the last slot of the last L2 block, and no block with room *)

BLOCOS_DA_ARVORE == DIRETOS_E_SIMPLES + ponteiros_por_bloco * ponteiros_por_bloco

\* [n, cheio, vivo, livres]: the volume has no free block, or one, or two
IMAGENS_CHEIAS ==
  { <<BLOCOS_DA_ARVORE, TRUE, FALSE, 0>>, <<BLOCOS_DA_ARVORE, TRUE, FALSE, 1>>,
    <<BLOCOS_DA_ARVORE, TRUE, FALSE, 2>> }

InitCheio ==
  /\ passos = MaxComandos - ComandosPorImagem
  /\ \E i \in IMAGENS_CHEIAS :
       LET v == VolumeComDiretorio(i[1], i[2], i[3], i[4])
       IN /\ sb = v.sb
          /\ gdt = v.gdt
          /\ inodes = v.inodes
          /\ disco = v.disco
  /\ dir_atual = EXT2_ROOT_INO
  /\ ult = ult_nenhum
  /\ par = par_nenhum

SpecCheio == InitCheio /\ [][Next]_vars

-----------------------------------------------------------------------------
(* Volumes whose free-inode counters disagree with the inode bitmaps, as a
   damaged image handed to the program may be, next to the two sound ones:
   the allocator reads the counters before it reads a bitmap *)

\* The fresh volume with free-inode counts livres_sb, livres_g0, livres_g1
\* in the superblock and the two descriptors, and the bits of usados set in
\* the inode bitmap of group 1.
VolumeComContadores(livres_sb, livres_g0, livres_g1, usados) ==
  [VolumeNovo EXCEPT !.sb.free_inodes_count = livres_sb,
                     !.gdt[0].free_inodes_count = livres_g0,
                     !.gdt[1].free_inodes_count = livres_g1,
                     !.disco[10] = BitmapDe(usados)]

\* The fresh volume after alocar_bloco has been called twice for the root:
\* group 0 has no free block left, group 1 has its two.
VolumeComGrupoCheio ==
  alocar_bloco(alocar_bloco(VolumeNovo, EXT2_ROOT_INO).fs, EXT2_ROOT_INO).fs

VOLUMES_COM_CONTADORES ==
  { VolumeNovo, VolumeUsado, VolumeComGrupoCheio,
    VolumeComContadores(5, 1, 4, {}),       \* group 0 counts one, holds none
    VolumeComContadores(4, 0, 0, {}),       \* no group counts any
    VolumeComContadores(1, 0, 1, 0..3),     \* group 1 counts one, holds none
    VolumeComContadores(0, 0, 4, {}) }      \* the superblock counts none

InitContadores ==
  /\ passos = MaxComandos - ComandosPorImagem
  /\ \E v \in VOLUMES_COM_CONTADORES :
       /\ sb = v.sb
       /\ gdt = v.gdt
       /\ inodes = v.inodes
       /\ disco = v.disco
  /\ dir_atual = EXT2_ROOT_INO
  /\ ult = ult_nenhum
  /\ par = par_nenhum

SpecContadores == InitContadores /\ [][NextAlocador]_vars

-----------------------------------------------------------------------------
(* Views of the volume used to state the properties *)

TipoOK ==
  /\ \A n \in DOMAIN disco : Len(disco[n]) = tamanho_bloco
  /\ \A n \in DOMAIN disco : \A i \in 1..tamanho_bloco : disco[n][i] \in 0..255
  /\ dir_atual \in 1..INODES_COUNT

\* inode inode_num is marked in use in its group's inode bitmap
inode_em_uso(fs, inode_num) ==
  LET g == (inode_num - 1) \div fs.sb.inodes_per_group
      idx == (inode_num - 1) % fs.sb.inodes_per_group
  IN bit_esta_setado(fs.disco[fs.gdt[g].inode_bitmap], idx)

\* the directories that exist: inodes in use whose mode is a directory
diretorios_existentes(fs) ==
  {n \in 1..fs.sb.inodes_count :
     inode_em_uso(fs, n) /\ EXT2_IS_DIR(fs.inodes[n].mode)}

\* the data blocks of directory n: its non-zero, readable slots
blocos_de_dados(fs, n) ==
  LET slots == slots_do_diretorio(fs, fs.inodes[n])
  IN {slots[k] : k \in {j \in DOMAIN slots : slots[j] # 0 /\ ler_bloco_ok(fs, slots[j])}}

RECURSIVE bloco_bem_formado(_, _)
\* walking block b by rec_len from offset: every record is a multiple of 4,
\* covers its header and name, and the walk ends exactly at the block's end
bloco_bem_formado(b, offset) ==
  IF offset = tamanho_bloco THEN TRUE
  ELSE IF offset + TAMANHO_CABECALHO_ENTRADA_DIR > tamanho_bloco THEN FALSE
  ELSE /\ e_rec_len(b, offset) % 4 = 0
       /\ e_rec_len(b, offset) >= rec_len_real(e_name_len(b, offset))
       /\ offset + e_rec_len(b, offset) <= tamanho_bloco
       /\ bloco_bem_formado(b, offset + e_rec_len(b, offset))

RECURSIVE entradas_vivas(_, _)
\* the live entries (inode # 0) of block b from offset on, in block order
entradas_vivas(b, offset) ==
  IF offset + TAMANHO_CABECALHO_ENTRADA_DIR > tamanho_bloco THEN <<>>
  ELSE IF e_rec_len(b, offset) = 0 THEN <<>>
  ELSE (IF e_inode(b, offset) # 0
        THEN <<[inode |-> e_inode(b, offset), nome |-> e_name(b, offset)]>>
        ELSE <<>>)
       \o entradas_vivas(b, offset + e_rec_len(b, offset))

RECURSIVE entradas_dos_slots(_, _, _)
entradas_dos_slots(fs, slots, k) ==
  IF k > Len(slots) THEN <<>>
  ELSE (IF slots[k] # 0 /\ ler_bloco_ok(fs, slots[k])
        THEN entradas_vivas(fs.disco[slots[k]], 0) ELSE <<>>)
       \o entradas_dos_slots(fs, slots, k + 1)

\* the live entries of directory n, in slot order and block order
entradas_do_diretorio(fs, n) ==
  entradas_dos_slots(fs, slots_do_diretorio(fs, fs.inodes[n]), 1)

\* the live entries of directory n that carry the name nome
entradas_com_nome(fs, n, nome) ==
  SelectSeq(entradas_do_diretorio(fs, n), LAMBDA e : e.nome = nome)

\* directory p holds a live entry, other than "." and "..", that points to n
e_pai_de(fs, p, n) ==
  \E k \in DOMAIN entradas_do_diretorio(fs, p) :
    /\ entradas_do_diretorio(fs, p)[k].inode = n
    /\ entradas_do_diretorio(fs, p)[k].nome \notin {STR_PONTO, STR_PONTO_PONTO}

RECURSIVE nomes_de(_)
nomes_de(entradas) ==
  IF entradas = <<>> THEN <<>>
  ELSE <<Head(entradas).nome>> \o nomes_de(Tail(entradas))

\* directory n holds the live entries "." and ".." and no other
so_ponto_e_ponto_ponto(fs, n) ==
  nomes_de(entradas_do_diretorio(fs, n)) = <<STR_PONTO, STR_PONTO_PONTO>>

\* the counters of the superblock and of every group are those of fs0
contadores_iguais(fs, fs0) ==
  /\ fs.sb.free_blocks_count = fs0.sb.free_blocks_count
  /\ fs.sb.free_inodes_count = fs0.sb.free_inodes_count
  /\ \A g \in DOMAIN fs.gdt :
       /\ fs.gdt[g].free_blocks_count = fs0.gdt[g].free_blocks_count
       /\ fs.gdt[g].free_inodes_count = fs0.gdt[g].free_inodes_count

\* the directory in which the first command of the pair in par worked
pai_do_par ==
  caminho_para_inode(par.antes.fs, par.antes.dir_atual, dirname(par.arg))

\* directory n of fs has a block whose last entry leaves room for an entry
\* named nome, so that inserting it attaches no new block
ha_espaco_para(fs, n, nome) ==
  bloco_com_espaco(fs, slots_do_diretorio(fs, fs.inodes[n]), 1,
                   rec_len_real(Len(nome))) # 0

RECURSIVE posicao_no_buffer(_, _, _)
\* the offset of the first live entry named nome in block b, walking as the
\* scans of the code do, or -1
posicao_no_buffer(b, offset, nome) ==
  IF offset >= tamanho_bloco THEN -1
  ELSE IF e_rec_len(b, offset) = 0 THEN -1
  ELSE IF e_inode(b, offset) # 0 /\ e_name_len(b, offset) = Len(nome)
          /\ e_name(b, offset) = nome
  THEN offset
  ELSE IF offset + e_rec_len(b, offset) >= tamanho_bloco THEN -1
  ELSE posicao_no_buffer(b, offset + e_rec_len(b, offset), nome)

RECURSIVE bloco_do_nome(_, _, _, _)
\* the first block of the directory, in slot order, with a live entry nome
bloco_do_nome(fs, slots, k, nome) ==
  IF k > Len(slots) THEN 0
  ELSE IF slots[k] # 0 /\ ler_bloco_ok(fs, slots[k])
          /\ posicao_no_buffer(fs.disco[slots[k]], 0, nome) >= 0
  THEN slots[k]
  ELSE bloco_do_nome(fs, slots, k + 1, nome)

\* the names of a rename pair, and where the old name stood before the pair
nome_antigo_do_par == Tokens(par.arg, BRANCOS, <<>>)[1]
nome_novo_do_par == Tokens(par.arg, BRANCOS, <<>>)[2]
bloco_do_par ==
  bloco_do_nome(par.antes.fs,
                slots_do_diretorio(par.antes.fs, par.antes.fs.inodes[par.antes.dir_atual]),
                1, nome_antigo_do_par)
offset_do_par == posicao_no_buffer(par.antes.fs.disco[bloco_do_par], 0, nome_antigo_do_par)

\* block b with everything after the name in the record at offset o zeroed
com_resto_zerado(b, o) ==
  LET fim_do_nome == o + TAMANHO_CABECALHO_ENTRADA_DIR + e_name_len(b, o)
  IN Zerar(b, fim_do_nome, o + e_rec_len(b, o) - fim_do_nome)

\* the inode and the data block that a mkdir or touch starting from the
\* state before the step of par obtains from the allocator
inode_novo_do_par == alocar_inode(par.antes.fs).ret
bloco_novo_do_par == alocar_bloco(alocar_inode(par.antes.fs).fs, inode_novo_do_par).ret

\* the blocks of the tree of a file: the direct blocks, the single-indirect
\* pointer block and the blocks it points to, the double-indirect L1 block,
\* every L2 block and the blocks they point to
ponteiros_nao_nulos(fs, num_bloco) ==
  {ponteiro(fs.disco[num_bloco], i) : i \in 0..(ponteiros_por_bloco - 1)} \ {0}

arvore_de_blocos(fs, ino) ==
  ({ino.block[i] : i \in 0..(NUM_DIRETOS - 1)} \ {0})
  \cup (IF ino.block[12] = 0 THEN {}
        ELSE {ino.block[12]} \cup ponteiros_nao_nulos(fs, ino.block[12]))
  \cup (IF ino.block[13] = 0 THEN {}
        ELSE {ino.block[13]} \cup ponteiros_nao_nulos(fs, ino.block[13])
             \cup UNION {ponteiros_nao_nulos(fs, l2) : l2 \in ponteiros_nao_nulos(fs, ino.block[13])})

\* the bit of block num_bloco is set in the bitmap of its group
bloco_em_uso(fs, num_bloco) ==
  LET indice == num_bloco - fs.sb.first_data_block
  IN bit_esta_setado(fs.disco[fs.gdt[indice \div fs.sb.blocks_per_group].block_bitmap],
                     indice % fs.sb.blocks_per_group)

\* both bitmaps of every group are the same in fs and fs0
bitmaps_iguais(fs, fs0) ==
  \A g \in DOMAIN fs.gdt :
    /\ fs.disco[fs.gdt[g].block_bitmap] = fs0.disco[fs0.gdt[g].block_bitmap]
    /\ fs.disco[fs.gdt[g].inode_bitmap] = fs0.disco[fs0.gdt[g].inode_bitmap]

\* every live entry of directory n is "." or ".."
so_entradas_de_ponto(fs, n) ==
  \A k \in DOMAIN entradas_do_diretorio(fs, n) :
    entradas_do_diretorio(fs, n)[k].nome \in {STR_PONTO, STR_PONTO_PONTO}

\* the bit of inode inode_num in the inode bitmap of its group is clear
inode_ja_livre(fs, inode_num) ==
  /\ inode_num \in 1..fs.sb.inodes_count
  /\ ~bit_esta_setado(
        fs.disco[fs.gdt[(inode_num - 1) \div fs.sb.inodes_per_group].inode_bitmap],
        (inode_num - 1) % fs.sb.inodes_per_group)

\* the bit of block num_bloco in the block bitmap of its group is clear
bloco_ja_livre(fs, num_bloco) ==
  /\ num_bloco \in fs.sb.first_data_block..(fs.sb.blocks_count - 1)
  /\ ~bit_esta_setado(
        fs.disco[fs.gdt[(num_bloco - fs.sb.first_data_block)
                          \div fs.sb.blocks_per_group].block_bitmap],
        (num_bloco - fs.sb.first_data_block) % fs.sb.blocks_per_group)

\* the positions of p where a component starts: a byte that is not '/',
\* first of p or preceded by a '/'
inicios(p) ==
  {i \in 1..Len(p) : p[i] # CH_BARRA /\ (i = 1 \/ p[i - 1] = CH_BARRA)}

\* the components of p: its maximal runs of bytes other than '/', in order
componentes(p) ==
  [k \in 1..Cardinality(inicios(p)) |->
     LET i == CHOOSE x \in inicios(p) :
                Cardinality({y \in inicios(p) : y < x}) = k - 1
         j == CHOOSE y \in i..Len(p) :
                /\ \A z \in i..y : p[z] # CH_BARRA
                /\ y = Len(p) \/ p[y + 1] = CH_BARRA
     IN SubSeq(p, i, j)]

\* what directory n holds under nome: the inode of its first live entry of
\* that name; 0 when n is not a directory or holds no such entry
consulta(fs, n, nome) ==
  IF n \notin 1..fs.sb.inodes_count THEN 0
  ELSE IF ~EXT2_IS_DIR(fs.inodes[n].mode) THEN 0
  ELSE Head(entradas_com_nome(fs, n, nome) \o <<[inode |-> 0, nome |-> nome]>>).inode

RECURSIVE destino(_, _, _, _)
\* where the first k components cs lead from partida: 0 as soon as one
\* lookup yields 0
destino(fs, partida, cs, k) ==
  IF k = 0 THEN partida
  ELSE LET anterior == destino(fs, partida, cs, k - 1)
       IN IF anterior = 0 THEN 0 ELSE consulta(fs, anterior, cs[k])

\* the paths resolved in every state
CAMINHOS_A_RESOLVER ==
  CAMINHOS \cup
  { <<47, 47>>,                    \* //
    <<97, 47, 47, 98>>,            \* a//b
    <<47, 97, 47, 98>>,            \* /a/b
    <<97, 47, 98, 47>>,            \* a/b/
    <<97, 47, 98, 47, 46, 46>>,    \* a/b/..
    <<98, 47, 46>>,                \* b/.
    <<46, 46, 47, 97>>,            \* ../a
    <<46, 46, 47, 46, 46>>,        \* ../..
    <<99>> }                       \* c

\* the groups in which alocar_inode can find an inode: the descriptor counts
\* a free inode and the bitmap has a clear bit below inodes_per_group
grupos_com_inode(fs) ==
  {g \in 0..(num_grupos(fs) - 1) :
     /\ fs.gdt[g].free_inodes_count > 0
     /\ \E j \in 0..(fs.sb.inodes_per_group - 1) :
          ~bit_esta_setado(fs.disco[fs.gdt[g].inode_bitmap], j)}

\* the lowest clear bit of a bitmap below limite
menor_bit_livre(bitmap, limite) ==
  CHOOSE j \in 0..(limite - 1) :
    /\ ~bit_esta_setado(bitmap, j)
    /\ \A k \in 0..(j - 1) : bit_esta_setado(bitmap, k)

\* bitmap depois differs from antes in bit j only, which is set
so_o_bit_setado(antes, depois, j) ==
  \A k \in 0..(8 * tamanho_bloco - 1) :
    bit_esta_setado(depois, k) <=> (k = j \/ bit_esta_setado(antes, k))

\* the groups whose block bitmap has a clear bit below blocks_per_group
grupos_com_bloco(fs) ==
  {g \in 0..(num_grupos(fs) - 1) :
     \E j \in 0..(fs.sb.blocks_per_group - 1) :
       ~bit_esta_setado(fs.disco[fs.gdt[g].block_bitmap], j)}

RECURSIVE deslocamentos(_, _)
\* the offsets of the records of block b from offset on, live or deleted
deslocamentos(b, offset) ==
  IF offset + TAMANHO_CABECALHO_ENTRADA_DIR > tamanho_bloco THEN <<>>
  ELSE IF e_rec_len(b, offset) = 0 THEN <<offset>>
  ELSE <<offset>> \o deslocamentos(b, offset + e_rec_len(b, offset))

\* the offset of the last record of block b
ultimo_registro(b) == deslocamentos(b, 0)[Len(deslocamentos(b, 0))]

\* the bytes a record with a name of name_len bytes needs
pegada(name_len) == 4 * ((TAMANHO_CABECALHO_ENTRADA_DIR + name_len + 3) \div 4)

\* what the last record of block b has beyond what it needs
folga(b) ==
  e_rec_len(b, ultimo_registro(b)) - pegada(e_name_len(b, ultimo_registro(b)))

\* the places of slots, the pointer tree of a directory in the order of the
\* tree, whose block has room for an entry named nome
lugares_com_folga(fs, slots, nome) ==
  {k \in DOMAIN slots :
     slots[k] # 0 /\ folga(fs.disco[slots[k]]) >= pegada(Len(nome))}

\* the names given to adicionar_entrada_diretorio in every state
NOMES_A_INSERIR == {NOME_B, <<99>>, NOME_ABCDE, NOME_LONGO(29)}

\* the offsets of the live records of block b that carry the name nome
registros_com_nome(b, nome) ==
  UNION {{ds[x] : x \in {y \in DOMAIN ds :
                           /\ e_rec_len(b, ds[y]) # 0
                           /\ e_inode(b, ds[y]) # 0
                           /\ e_name_len(b, ds[y]) = Len(nome)
                           /\ e_name(b, ds[y]) = nome}} :
         ds \in {deslocamentos(b, 0)}}

\* the places of slots whose block holds a live record named nome
lugares_com_nome(fs, slots, nome) ==
  {k \in DOMAIN slots : slots[k] # 0 /\ registros_com_nome(fs.disco[slots[k]], nome) # {}}

\* the sequence s without its element at position i
sem_o_elemento(s, i) == SubSeq(s, 1, i - 1) \o SubSeq(s, i + 1, Len(s))

\* the names given to remover_entrada_diretorio in every state
NOMES_A_REMOVER == {NOME_A, NOME_B, <<99>>, STR_PONTO, STR_PONTO_PONTO, NOME_LONGO(29)}

\* the names rename is asked to change, and the names it is asked to give,
\* in every state.  The shell reads a line into linha_comando[256], so that
\* the arguments of a command have 248 bytes at most: no name of more than
\* EXT2_NAME_LEN bytes reaches comando_rename.
NOMES_ANTIGOS == {NOME_A, NOME_B, STR_PONTO, STR_PONTO_PONTO}
NOMES_NOVOS ==
  {NOME_B, <<99>>, NOME_ABCDE, <<120, 47, 121>>, NOME_LONGO(29)}

\* the rec_len of the first live record named nome of the directory with
\* the pointer tree slots, in the order of the tree
rec_len_do_nome(fs, slots, nome) ==
  LET lugares == lugares_com_nome(fs, slots, nome)
      b == fs.disco[slots[CHOOSE k \in lugares : \A x \in lugares : k <= x]]
      o == CHOOSE x \in registros_com_nome(b, nome) :
             \A y \in registros_com_nome(b, nome) : x <= y
  IN e_rec_len(b, o)

\* every slot of the pointer tree of ino is taken: the direct slots, the
\* slots of the single-indirect block, the slots of the L1 block and those of
\* every L2 block
arvore_cheia(fs, ino) ==
  /\ \A i \in 0..(NUM_DIRETOS - 1) : ino.block[i] # 0
  /\ ino.block[12] # 0
  /\ \A i \in 0..(ponteiros_por_bloco - 1) : ponteiro(fs.disco[ino.block[12]], i) # 0
  /\ ino.block[13] # 0
  /\ \A i \in 0..(ponteiros_por_bloco - 1) :
       \A l2 \in {ponteiro(fs.disco[ino.block[13]], i)} :
         /\ l2 # 0
         /\ \A j \in 0..(ponteiros_por_bloco - 1) : ponteiro(fs.disco[l2], j) # 0

\* the index of the first direct slot of ino that is zero, NUM_DIRETOS when
\* none is
primeiro_zero_direto(ino) ==
  primeiro_de({i \in 0..(NUM_DIRETOS - 1) : ino.block[i] = 0}, NUM_DIRETOS)

\* the last element of a non-empty sequence
ultima(s) == s[Len(s)]

\* es are the volumes after each write of a command that began in the
\* volume antes: in the k-th of them the directory pai has a live entry nome
\* for the inode novo, and none of the writes up to the k-th has written the
\* record of novo
entrada_sem_inode(es, antes, k, pai, nome, novo) ==
  /\ procurar_entrada_no_diretorio(es[k], pai, nome) = novo
  /\ \A j \in 1..k : es[j].inodes[novo] = (IF j = 1 THEN antes ELSE es[j - 1]).inodes[novo]

\* The writes es of an allocator call that started from the device antes and
\* ended in depois come in the order bitmap, superblock, group descriptor:
\* the superblock on the device differs from what it was only where a block
\* already does, the descriptors only where the superblock already does, and
\* each of the three is on the device at some point without the next.
bitmap_sb_gd(es, antes, depois) ==
  /\ es = <<>> => depois = antes
  /\ es # <<>> =>
       /\ ultima(es) = depois
       /\ \A k \in DOMAIN es :
            /\ es[k].sb # antes.sb => es[k].disco # antes.disco
            /\ es[k].gdt # antes.gdt => es[k].sb # antes.sb
       /\ \E k \in DOMAIN es : es[k].disco # antes.disco /\ es[k].sb = antes.sb
       /\ \E k \in DOMAIN es : es[k].sb # antes.sb /\ es[k].gdt = antes.gdt
       /\ ultima(es).gdt # antes.gdt

\* The volume as the program holds it when the descriptors of the image name
\* block 0 as both bitmaps of every group: ler_bloco reads block 0, and every
\* escrever_bloco of a bitmap fails (systemOp.c:743).  Block 0 of the model's
\* volumes is zero, so the first bit of every bitmap reads as free.
com_bitmaps_no_bloco_zero(fs) ==
  [fs EXCEPT !.gdt = [g \in DOMAIN fs.gdt |->
                        [fs.gdt[g] EXCEPT !.block_bitmap = 0, !.inode_bitmap = 0]]]

\* the positions, among the live entries es of a directory, of its child
\* subdirectories: entries other than "." and ".." that name a directory
\* that exists
subdiretorios(fs, es) ==
  {k \in DOMAIN es : /\ es[k].nome \notin {STR_PONTO, STR_PONTO_PONTO}
                     /\ es[k].inode \in diretorios_existentes(fs)}

\* the non-zero elements of a sequence of pointers come first
zeros_no_fim(ps) ==
  \A i, j \in DOMAIN ps : (i < j /\ ps[i] = 0) => ps[j] = 0

\* a directory without holes: the non-zero pointers are a prefix of
\* block[0..11], of the single-indirect block, of the L1 block and of every
\* L2 block
sem_buracos(fs, ino) ==
  /\ zeros_no_fim([i \in 1..NUM_DIRETOS |-> ino.block[i - 1]])
  /\ ino.block[12] # 0 => zeros_no_fim(ponteiros_de(fs.disco[ino.block[12]], 0))
  /\ ino.block[13] # 0 =>
       /\ zeros_no_fim(ponteiros_de(fs.disco[ino.block[13]], 0))
       /\ \A l2 \in ponteiros_nao_nulos(fs, ino.block[13]) :
            zeros_no_fim(ponteiros_de(fs.disco[l2], 0))

\* the names of a sequence of entries, as a set
conjunto_de_nomes(es) == {es[k].nome : k \in DOMAIN es}

\* the inodes named by the live entries of the directories in S
nomeados_por(fs, S) ==
  UNION {{entradas_do_diretorio(fs, n)[k].inode : k \in DOMAIN entradas_do_diretorio(fs, n)} :
           n \in S}

RECURSIVE alcancaveis_em(_, _, _)
\* the directories reached from those in S through at most k entries
alcancaveis_em(fs, S, k) ==
  IF k = 0 THEN S
  ELSE alcancaveis_em(fs,
         S \cup {n \in nomeados_por(fs, S) :
                   ler_inode_ok(fs, n) /\ EXT2_IS_DIR(fs.inodes[n].mode)},
         k - 1)

\* the directories reachable from the root
diretorios_alcancaveis(fs) == alcancaveis_em(fs, {EXT2_ROOT_INO}, fs.sb.inodes_count)

\* the live inodes: those whose bit in the inode bitmap is set
inodes_vivos(fs) == {n \in 1..fs.sb.inodes_count : inode_em_uso(fs, n)}

\* every place of the tree of ino that holds a block number, as a sequence:
\* the data slots in the order of slots_do_diretorio, then block[12],
\* block[13] and the slots of the L1 block
referencias(fs, ino) ==
  slots_do_diretorio(fs, ino)
  \o <<ino.block[12], ino.block[13]>>
  \o (IF ino.block[13] # 0 /\ ler_bloco_ok(fs, ino.block[13])
      THEN ponteiros_de(fs.disco[ino.block[13]], 0) ELSE <<>>)

\* no block number other than 0 stands at two places of ps
sem_repeticao(ps) ==
  \A i, j \in DOMAIN ps : (i # j /\ ps[i] # 0) => ps[i] # ps[j]

\* what the places of ps refer to
referidos(ps) == {ps[k] : k \in DOMAIN ps} \ {0}

\* the last group of the volume holds fewer than blocks_per_group blocks
ultimo_grupo_curto(fs) ==
  (fs.sb.blocks_count - fs.sb.first_data_block) % fs.sb.blocks_per_group # 0

\* the group of block n
grupo_do_bloco(fs, n) == (n - fs.sb.first_data_block) \div fs.sb.blocks_per_group

\* a name that no directory entry may carry: the empty one, or one with "/"
nome_invalido(nome) ==
  nome = <<>> \/ \E i \in DOMAIN nome : nome[i] = CH_BARRA

\* some existing directory of fs holds a live entry with such a name
ha_nome_invalido(fs) ==
  \E n \in diretorios_existentes(fs) :
    \E es \in {entradas_do_diretorio(fs, n)} :
      \E k \in DOMAIN es : nome_invalido(es[k].nome)

-----------------------------------------------------------------------------
(* Properties *)

RECURSIVE soma_blocos_livres(_, _)
soma_blocos_livres(fs, g) ==
  IF g >= num_grupos(fs) THEN 0
  ELSE fs.gdt[g].free_blocks_count + soma_blocos_livres(fs, g + 1)

RECURSIVE soma_inodes_livres(_, _)
soma_inodes_livres(fs, g) ==
  IF g >= num_grupos(fs) THEN 0
  ELSE fs.gdt[g].free_inodes_count + soma_inodes_livres(fs, g + 1)

\* C1: after any sequence of alocar_inode, liberar_inode, alocar_bloco and
\* liberar_bloco calls (successful or failing) and of touch, mkdir, rm and
\* rmdir commands, the free-block counts of the group descriptors add up to
\* the superblock's free_blocks_count, and the free-inode counts add up to
\* its free_inodes_count.
C1_SomasConferem ==
  /\ soma_blocos_livres(FS, 0) = sb.free_blocks_count
  /\ soma_inodes_livres(FS, 0) = sb.free_inodes_count

\* an allocation has just failed because earlier ones used up the inodes
C1_Testemunha ==
  /\ ult.op = "alocar_inode"
  /\ ult.ret = 0
  /\ sb.free_inodes_count = 0
  /\ soma_inodes_livres(FS, 0) = 0

\* C2: a successful alocar_bloco followed at once by liberar_bloco of the
\* number it returned (and likewise alocar_inode / liberar_inode) leaves the
\* superblock's free counts, every group's free counts and every bitmap as
\* they were before the allocation.
C2_IdaEVolta ==
  (par.fase = 2 /\ par.op \in {"alocar_bloco", "alocar_inode"}) =>
    /\ sb.free_blocks_count = par.antes.fs.sb.free_blocks_count
    /\ sb.free_inodes_count = par.antes.fs.sb.free_inodes_count
    /\ \A g \in DOMAIN gdt :
         /\ gdt[g].free_blocks_count = par.antes.fs.gdt[g].free_blocks_count
         /\ gdt[g].free_inodes_count = par.antes.fs.gdt[g].free_inodes_count
         /\ disco[gdt[g].block_bitmap] = par.antes.fs.disco[gdt[g].block_bitmap]
         /\ disco[gdt[g].inode_bitmap] = par.antes.fs.disco[gdt[g].inode_bitmap]

\* a block was allocated and the next call released it
C2_Testemunha ==
  /\ par.fase = 2
  /\ par.op = "alocar_bloco"
  /\ ult.op = "liberar_bloco"
  /\ ult.ret = 0
  /\ ult.mudou

\* C3: after any sequence of touch, mkdir, rm, rmdir and rename, in every
\* data block of every existing directory the rec_len values walked from
\* offset 0 add up to the block size, every rec_len is a multiple of 4 and
\* every rec_len is at least 8 + name_len rounded up to a multiple of 4.
C3_BlocosBemFormados ==
  \A n \in diretorios_existentes(FS) :
    \A num_bloco \in blocos_de_dados(FS, n) :
      bloco_bem_formado(disco[num_bloco], 0)

\* an rm has just left a block of the root that starts with a deleted record,
\* while another block of the root holds entries put there by insertion
C3_Testemunha ==
  /\ ult.op = "rm"
  /\ ult.msg = "ok"
  /\ \E num_bloco \in blocos_de_dados(FS, EXT2_ROOT_INO) :
       e_inode(disco[num_bloco], 0) = 0
  /\ \E num_bloco \in blocos_de_dados(FS, EXT2_ROOT_INO) :
       Len(entradas_vivas(disco[num_bloco], 0)) >= 3

\* C4: after any sequence of touch, mkdir, rm, rmdir and rename commands,
\* every existing directory has exactly one live entry named "." that points
\* to the directory itself and exactly one live entry named ".." that points
\* to its parent; the ".." of the root points to the root.
C4_PontoEPontoPonto ==
  \A n \in diretorios_existentes(FS) :
    /\ Len(entradas_com_nome(FS, n, STR_PONTO)) = 1
    /\ entradas_com_nome(FS, n, STR_PONTO)[1].inode = n
    /\ Len(entradas_com_nome(FS, n, STR_PONTO_PONTO)) = 1
    /\ LET q == entradas_com_nome(FS, n, STR_PONTO_PONTO)[1].inode
       IN IF n = EXT2_ROOT_INO THEN q = EXT2_ROOT_INO
          ELSE q \in diretorios_existentes(FS) /\ e_pai_de(FS, q, n)

C7_RenameIdaEVolta ==
  (par.fase = 2 /\ par.op = "rename") =>
    /\ Len(nome_antigo_do_par) = Len(nome_novo_do_par) =>
         disco[bloco_do_par] = par.antes.fs.disco[bloco_do_par]
    /\ entradas_vivas(disco[bloco_do_par], 0)
         = entradas_vivas(par.antes.fs.disco[bloco_do_par], 0)

\* C7, amended: for any name lengths, rename old new followed by rename new
\* old leaves every block as it was before the first rename except that, in
\* the renamed entry's record, all bytes after the name are zero; the
\* entries of the block and their order are unchanged.
C7_RenameZeraOResto ==
  (par.fase = 2 /\ par.op = "rename") =>
    /\ \A n \in DOMAIN disco :
         disco[n] = IF n = bloco_do_par
                    THEN com_resto_zerado(par.antes.fs.disco[n], offset_do_par)
                    ELSE par.antes.fs.disco[n]
    /\ entradas_vivas(disco[bloco_do_par], 0)
         = entradas_vivas(par.antes.fs.disco[bloco_do_par], 0)

\* a rename pair on an entry whose record held bytes of an older, longer name
C7_Testemunha ==
  /\ par.fase = 2
  /\ par.op = "rename"
  /\ ult.op = "rename"
  /\ ult.msg = "ok"
  /\ Len(nome_antigo_do_par) = Len(nome_novo_do_par)
  /\ disco[bloco_do_par] # par.antes.fs.disco[bloco_do_par]

\* C9: whenever adicionar_entrada_diretorio, called by a successful touch or
\* mkdir, finds no block with enough trailing slack and attaches a newly
\* allocated data block, the parent's size grows by the block size and its
\* blocks count by block size / sector size; hence the size of every
\* directory is the block size times the number of its data blocks.
C9_NovoBlocoContado ==
  /\ (/\ par.fase = 1
      /\ par.op \in {"touch", "mkdir"}
      /\ ~ha_espaco_para(par.antes.fs, pai_do_par, basename(par.arg))) =>
       /\ inodes[pai_do_par].size = par.antes.fs.inodes[pai_do_par].size + tamanho_bloco
       /\ inodes[pai_do_par].blocks
            = par.antes.fs.inodes[pai_do_par].blocks + tamanho_bloco \div TAMANHO_SETOR
  /\ \A n \in diretorios_existentes(FS) :
       inodes[n].size = tamanho_bloco * Cardinality(blocos_de_dados(FS, n))

\* C10: rmdir refuses every path that designates ".", ".." or "/", also one
\* whose last component is "." or ".." (such as /a/.. and a/.), with the
\* invalid-or-protected error and without changing anything on the volume.
\* (A path whose leading components do not resolve is left aside.)
C10_RmdirProtegido ==
  (/\ ult.op = "rmdir"
   /\ ult.arg # <<>>
   /\ basename(ult.arg) \in {STR_PONTO, STR_PONTO_PONTO, STR_BARRA}
   /\ ult.msg # "nao encontrado") =>
    /\ ult.msg = "invalido ou protegido"
    /\ ~ult.mudou

\* C8: for any regular-file inode, when ler_conteudo_arquivo returns a buffer
\* it has copied exactly inode.size bytes into it.
C8_CopiaTamanhoBytes ==
  (ult.op = "ler_conteudo_arquivo" /\ ult.msg = "ok") =>
    ult.ret = inodes[INODE_ARQUIVO].size

\* C11: after a successful mkdir p the parent's links_count is one more than
\* before; the new inode is a directory with links_count 2, size one block,
\* blocks one block's worth of sectors and block[0] a newly allocated data
\* block whose first entry is "." (rec_len 12, the new inode) and whose
\* second is ".." (rec_len block size - 12, the parent); and resolving p
\* from the same directory yields the new inode.
C11_MkdirCriaDiretorio ==
  (par.fase = 1 /\ par.op = "mkdir") =>
    LET novo == inode_novo_do_par
        nb == bloco_novo_do_par
    IN /\ inodes[pai_do_par].links_count = par.antes.fs.inodes[pai_do_par].links_count + 1
       /\ EXT2_IS_DIR(inodes[novo].mode)
       /\ inodes[novo].links_count = 2
       /\ inodes[novo].size = tamanho_bloco
       /\ inodes[novo].blocks = tamanho_bloco \div TAMANHO_SETOR
       /\ inodes[novo].block[0] = nb
       /\ nb # 0
       /\ e_inode(disco[nb], 0) = novo
       /\ e_rec_len(disco[nb], 0) = 12
       /\ e_name(disco[nb], 0) = STR_PONTO
       /\ e_inode(disco[nb], 12) = pai_do_par
       /\ e_rec_len(disco[nb], 12) = tamanho_bloco - 12
       /\ e_name(disco[nb], 12) = STR_PONTO_PONTO
       /\ caminho_para_inode(FS, par.antes.dir_atual, par.arg) = novo

\* C12: after any successful touch p, whatever the state of the parent's
\* direct, single-indirect and double-indirect slots, resolving p from the
\* same directory returns the newly allocated inode, and that inode is a
\* regular file of mode 0100644 with size 0, links_count 1, dtime 0 and all
\* 15 block pointers zero.
C12_TouchCriaArquivo ==
  (par.fase = 1 /\ par.op = "touch") =>
    LET novo == inode_novo_do_par
    IN /\ caminho_para_inode(FS, par.antes.dir_atual, par.arg) = novo
       /\ inodes[novo].mode = EXT2_S_IFREG + PERM_ARQUIVO
       /\ inodes[novo].size = 0
       /\ inodes[novo].links_count = 1
       /\ inodes[novo].dtime = 0
       /\ \A i \in 0..(EXT2_N_BLOCKS - 1) : inodes[novo].block[i] = 0

C14_RenameSoMudaONome ==
  [][ (ult'.op = "rename" /\ ult'.msg = "ok") =>
        \A nome_antigo \in {Tokens(ult'.arg, BRANCOS, <<>>)[1]} :
        \A nome_novo \in {Tokens(ult'.arg, BRANCOS, <<>>)[2]} :
        \A nb \in {bloco_do_nome(FS, slots_do_diretorio(FS, inodes[dir_atual]), 1, nome_antigo)} :
          /\ nb # 0
          /\ \A o \in {posicao_no_buffer(disco[nb], 0, nome_antigo)} :
             \A fim \in {o + e_rec_len(disco[nb], o)} :
             \A renomeado \in {e_inode(disco[nb], o)} :
               /\ o >= 0
               /\ \A n \in DOMAIN disco : n # nb => disco'[n] = disco[n]
               /\ \A i \in 1..tamanho_bloco :
                    (i <= o + 6 \/ i = o + 8 \/ i > fim) => disco'[nb][i] = disco[nb][i]
               /\ e_name_len(disco'[nb], o) = Len(nome_novo)
               /\ e_name(disco'[nb], o) = nome_novo
               /\ sb' = sb
               /\ gdt' = gdt
               /\ renomeado \in DOMAIN inodes
               /\ \A n \in DOMAIN inodes :
                    inodes'[n] = [inodes[n] EXCEPT
                                    !.mtime = IF n = dir_atual THEN AGORA(FS) ELSE @,
                                    !.ctime = IF n = renomeado THEN AGORA(FS) ELSE @] ]_vars

\* a file made before has just been renamed, in a record that held bytes
\* after the old name, and another entry shares the block
C14_Testemunha ==
  /\ ult.op = "rename"
  /\ ult.msg = "ok"
  /\ par.fase = 1
  /\ LET renomeado == procurar_entrada_no_diretorio(FS, dir_atual, nome_novo_do_par)
     IN /\ renomeado # 0
        /\ EXT2_IS_REG(inodes[renomeado].mode)
        /\ inodes[renomeado].ctime = FS.relogio - 1
        /\ inodes[renomeado].mtime < FS.relogio - 1
        /\ inodes[dir_atual].mtime = FS.relogio - 1
  /\ disco[bloco_do_par] # par.antes.fs.disco[bloco_do_par]
  /\ \E i \in (offset_do_par + TAMANHO_CABECALHO_ENTRADA_DIR + Len(nome_novo_do_par) + 1)
                ..(offset_do_par + e_rec_len(disco[bloco_do_par], offset_do_par)) :
       par.antes.fs.disco[bloco_do_par][i] # 0
  /\ Len(entradas_vivas(disco[bloco_do_par], 0)) >= 4

\* C15: rm p on a non-directory removes the entry from the parent and takes
\* one from the target's links_count.  When the count reaches zero every
\* direct block, the single-indirect pointer block and the blocks it points
\* to, the double-indirect L1 block, every L2 block and the blocks they point
\* to are freed, the inode's bit is cleared and dtime is nonzero; when the
\* count stays above zero no block and no inode is freed.
C15_RmRemoveELibera ==
  [][ (ult'.op = "rm" /\ ult'.arg # <<>>) =>
        \A alvo \in {caminho_para_inode(FS, dir_atual, ult'.arg)} :
          (alvo # 0 /\ ~EXT2_IS_DIR(inodes[alvo].mode)) =>
            \A pai \in {caminho_para_inode(FS, dir_atual, dirname(ult'.arg))} :
              /\ entradas_do_diretorio(FS', pai)
                   = SelectSeq(entradas_do_diretorio(FS, pai),
                               LAMBDA e : e.nome # basename(ult'.arg))
              /\ inodes'[alvo].links_count = inodes[alvo].links_count - 1
              /\ IF inodes'[alvo].links_count = 0
                 THEN /\ \A b \in arvore_de_blocos(FS, inodes[alvo]) : ~bloco_em_uso(FS', b)
                      /\ ~inode_em_uso(FS', alvo)
                      /\ inodes'[alvo].dtime # 0
                 ELSE /\ bitmaps_iguais(FS', FS)
                      /\ contadores_iguais(FS', FS) ]_vars

\* C16: rmdir of a directory that has a live entry other than "." and ".."
\* in one of its direct, single-indirect or double-indirect blocks fails and
\* leaves the volume as it was; and diretorio_esta_vazio returns 1 exactly
\* when every live entry in those blocks is "." or "..".
C16_RmdirNaoVazio ==
  /\ [](\A n \in diretorios_existentes(FS) :
          (diretorio_esta_vazio(FS, inodes[n]) = 1) <=> so_entradas_de_ponto(FS, n))
  /\ [][ (ult'.op = "rmdir" /\ ult'.arg # <<>>) =>
           \A alvo \in {caminho_para_inode(FS, dir_atual, ult'.arg)} :
             (/\ alvo # 0
              /\ EXT2_IS_DIR(inodes[alvo].mode)
              /\ ~so_entradas_de_ponto(FS, alvo)) =>
               /\ ult'.msg # "ok"
               /\ UNCHANGED <<sb, gdt, inodes, disco>> ]_vars

\* rmdir a has just been refused: the only file of a is in a block of its
\* double-indirect tree
C16_Testemunha ==
  /\ ult.op = "rmdir"
  /\ ult.msg = "nao esta vazio"
  /\ ~ult.mudou
  /\ LET alvo == caminho_para_inode(FS, dir_atual, ult.arg)
     IN /\ alvo = INODE_DE_A
        /\ inodes[alvo].block[13] # 0
        /\ diretorio_esta_vazio_so_diretos(FS, inodes[alvo]) = 1
        /\ \A num_bloco \in ponteiros_nao_nulos(FS, inodes[alvo].block[12]) :
             entradas_vivas(disco[num_bloco], 0) = <<>>
        /\ ~so_entradas_de_ponto(FS, alvo)

\* C17: when touch has allocated an inode and adicionar_entrada_diretorio
\* then fails, the bit of the inode is cleared again, the free-inode and
\* free-block counts of the superblock and of every group are those from
\* before the touch, and the directory has no entry for the name.
C17_TouchReverte ==
  [][ (ult'.op = "touch" /\ ult'.msg = "falha ao adicionar entrada") =>
        /\ ~inode_em_uso(FS', alocar_inode(FS).ret)
        /\ contadores_iguais(FS', FS)
        /\ procurar_entrada_no_diretorio(
             FS', caminho_para_inode(FS, dir_atual, dirname(ult'.arg)),
             basename(ult'.arg)) = 0 ]_vars

\* touch a/b has just failed: the direct slots of a were taken, the block
\* for the entry was the last free block of the volume, and none was left
\* for a single-indirect block
C17_Testemunha ==
  /\ ult.op = "touch"
  /\ ult.msg = "falha ao adicionar entrada"
  /\ ult.mudou
  /\ sb.free_blocks_count = 1
  /\ sb.free_inodes_count > 0
  /\ LET pai == caminho_para_inode(FS, dir_atual, dirname(ult.arg))
     IN /\ pai = INODE_DE_A
        /\ inodes[pai].block[NUM_DIRETOS - 1] # 0
        /\ inodes[pai].block[12] = 0

C19_LiberarDuasVezes ==
  /\ \A inode_num \in 1..INODES_COUNT :
       \A r \in {liberar_inode(FS, inode_num)} :
         /\ inode_ja_livre(FS, inode_num) => r = [fs |-> FS, ret |-> 0]
         /\ r.ret = 0 => /\ inode_ja_livre(r.fs, inode_num)
                         /\ liberar_inode(r.fs, inode_num) = r
  /\ \A num_bloco \in sb.first_data_block..(BLOCKS_COUNT - 1) :
       \A rb \in {liberar_bloco(FS, num_bloco)} :
         /\ bloco_ja_livre(FS, num_bloco) => rb = [fs |-> FS, ret |-> 0]
         /\ rb.ret = 0 => /\ bloco_ja_livre(rb.fs, num_bloco)
                          /\ liberar_bloco(rb.fs, num_bloco) = rb
  /\ (ult.op = "liberar_inode" /\ ult.arg[1] \in 1..INODES_COUNT) =>
       (ult.ret = 0 /\ inode_ja_livre(FS, ult.arg[1]))
  /\ (ult.op = "liberar_bloco"
        /\ ult.arg[1] \in sb.first_data_block..(BLOCKS_COUNT - 1)) =>
       (ult.ret = 0 /\ bloco_ja_livre(FS, ult.arg[1]))

\* the block of the root directory, in use in every initial volume, is free
\* and has just been released again: the call returned 0 and changed nothing
C19_Testemunha ==
  /\ ult.op = "liberar_bloco"
  /\ ult.arg = <<BLOCO_RAIZ>>
  /\ ult.ret = 0
  /\ ~ult.mudou
  /\ bloco_ja_livre(FS, BLOCO_RAIZ)
  /\ inode_ja_livre(FS, EXT2_ROOT_INO)

\* C20: caminho_para_inode(start, p) is 2 when p is "/"; otherwise it starts
\* at inode 2 when p begins with '/' and at start when it does not, splits p
\* on '/' discarding empty components, looks each component up in the inode
\* reached so far, where a lookup in a non-directory or of a missing name
\* makes the whole result 0, and returns the inode of the last component;
\* ".." is looked up like any name, through the ".." entry of the directory.
C20_CaminhoParaInode ==
  \A p \in CAMINHOS_A_RESOLVER :
    \A inicio \in 1..INODES_COUNT :
      caminho_para_inode(FS, inicio, p) =
        IF p = STR_BARRA THEN EXT2_ROOT_INO
        ELSE destino(FS,
                     IF p # <<>> /\ p[1] = CH_BARRA THEN EXT2_ROOT_INO ELSE inicio,
                     componentes(p), Len(componentes(p)))

\* cd a has just moved the shell into a directory a of several blocks that
\* holds b: from there ".." leads to the root through the entry of a, "b"
\* and "../a/b" lead to b, "/b" does not exist, and "b/." is 0 when b is a
\* regular file
C20_Testemunha ==
  /\ ult.op = "cd"
  /\ ult.arg = NOME_A
  /\ dir_atual = INODE_DE_A
  /\ inodes[INODE_DE_A].block[1] # 0
  /\ caminho_para_inode(FS, dir_atual, STR_PONTO_PONTO) = EXT2_ROOT_INO
  /\ caminho_para_inode(FS, dir_atual, NOME_B) = INODE_DE_B
  /\ caminho_para_inode(FS, dir_atual, <<46, 46, 47, 97, 47, 47, 98>>) = INODE_DE_B
  /\ caminho_para_inode(FS, dir_atual, <<47, 98>>) = 0
  /\ ~EXT2_IS_DIR(inodes[INODE_DE_B].mode)
  /\ caminho_para_inode(FS, dir_atual, <<98, 47, 46>>) = 0

\* C21: alocar_inode returns 0 and changes no bitmap and no counter when
\* sb.free_inodes_count is 0 or when no group whose descriptor counts a free
\* inode has a clear bit below inodes_per_group; otherwise it takes the
\* lowest such group g, sets its first clear bit j, lowers the free-inode
\* counts of the superblock and of g by one each, changes nothing else, and
\* returns g * inodes_per_group + j + 1.
C21_AlocarInode ==
  \A r \in {alocar_inode(FS)} :
    IF sb.free_inodes_count = 0 \/ grupos_com_inode(FS) = {}
    THEN r = [fs |-> FS, ret |-> 0]
    ELSE \A g \in {CHOOSE x \in grupos_com_inode(FS) :
                     \A y \in grupos_com_inode(FS) : x <= y} :
           \A j \in {menor_bit_livre(disco[gdt[g].inode_bitmap], sb.inodes_per_group)} :
             /\ r.ret = (g * sb.inodes_per_group) + j + 1
             /\ r.fs.sb = [sb EXCEPT !.free_inodes_count = @ - 1]
             /\ r.fs.gdt = [gdt EXCEPT ![g].free_inodes_count = @ - 1]
             /\ r.fs.inodes = inodes
             /\ so_o_bit_setado(disco[gdt[g].inode_bitmap],
                                r.fs.disco[gdt[g].inode_bitmap], j)
             /\ \A n \in DOMAIN disco :
                  n # gdt[g].inode_bitmap => r.fs.disco[n] = disco[n]

\* alocar_inode has just returned 0 on a volume whose superblock counts a
\* free inode, whose group 1 counts one too, and whose inode bitmap of
\* group 1 has no clear bit: nothing was changed, the counters stay wrong
C21_Testemunha ==
  /\ ult.op = "alocar_inode"
  /\ ult.ret = 0
  /\ ~ult.mudou
  /\ sb.free_inodes_count = 1
  /\ gdt[1].free_inodes_count = 1
  /\ grupos_com_inode(FS) = {}

\* C22: alocar_bloco with hint inode n takes the group (n - 1) div
\* inodes_per_group when that group has a clear bit, and otherwise the first
\* group, in ascending order, that has one; it sets the first clear bit j of
\* the group g it takes and returns g * blocks_per_group + first_data_block
\* + j, the block for which liberar_bloco computes group g and bit j, so that
\* releasing it gives the volume back; the free-block counts of the
\* superblock and of g drop by one each and nothing else changes.
C22_AlocarBloco ==
  \A n \in INODES_DONOS :
    \A r \in {alocar_bloco(FS, n)} :
      IF grupos_com_bloco(FS) = {}
      THEN r = [fs |-> FS, ret |-> 0]
      ELSE \A g \in {IF (n - 1) \div sb.inodes_per_group \in grupos_com_bloco(FS)
                     THEN (n - 1) \div sb.inodes_per_group
                     ELSE CHOOSE x \in grupos_com_bloco(FS) :
                            \A y \in grupos_com_bloco(FS) : x <= y} :
             \A j \in {menor_bit_livre(disco[gdt[g].block_bitmap], sb.blocks_per_group)} :
               /\ r.ret = (g * sb.blocks_per_group) + sb.first_data_block + j
               /\ (r.ret - sb.first_data_block) \div sb.blocks_per_group = g
               /\ (r.ret - sb.first_data_block) % sb.blocks_per_group = j
               /\ bloco_ja_livre(FS, r.ret)
               /\ liberar_bloco(r.fs, r.ret) = [fs |-> FS, ret |-> 0]
               /\ r.fs.sb = [sb EXCEPT !.free_blocks_count = @ - 1]
               /\ r.fs.gdt = [gdt EXCEPT ![g].free_blocks_count = @ - 1]
               /\ r.fs.inodes = inodes
               /\ so_o_bit_setado(disco[gdt[g].block_bitmap],
                                  r.fs.disco[gdt[g].block_bitmap], j)
               /\ \A b \in DOMAIN disco :
                    b # gdt[g].block_bitmap => r.fs.disco[b] = disco[b]

\* alocar_bloco for the root, an inode of group 0, has just returned a block
\* of group 1: group 0 had no clear bit left and the scan went on
C22_Testemunha ==
  /\ ult.op = "alocar_bloco"
  /\ ult.arg = <<EXT2_ROOT_INO>>
  /\ ult.ret >= BLOCKS_PER_GROUP + FIRST_DATA_BLOCK
  /\ 0 \notin grupos_com_bloco(FS)
  /\ bloco_em_uso(FS, ult.ret)

C24_RemoverEntrada ==
  \A d \in diretorios_existentes(FS) :
    \A slots \in {slots_do_diretorio(FS, inodes[d])} :
      \A nome \in NOMES_A_REMOVER :
        \A lugares \in {lugares_com_nome(FS, slots, nome)} :
          \A r \in {remover_entrada_diretorio(FS, inodes[d], nome)} :
            IF lugares = {}
            THEN r = [fs |-> FS, ret |-> -1]
            ELSE
              \A n \in {slots[CHOOSE k \in lugares : \A x \in lugares : k <= x]} :
                \A ds \in {deslocamentos(disco[n], 0)} :
                  \A i \in {CHOOSE x \in DOMAIN ds :
                              \A rs \in {registros_com_nome(disco[n], nome)} :
                                ds[x] \in rs /\ \A y \in 1..(x - 1) : ds[y] \notin rs} :
                    /\ r.ret = 0
                    /\ r.fs.sb = sb /\ r.fs.gdt = gdt /\ r.fs.inodes = inodes
                    /\ \A b \in DOMAIN disco : b # n => r.fs.disco[b] = disco[b]
                    /\ IF i > 1
                       THEN /\ e_rec_len(r.fs.disco[n], ds[i - 1]) =
                                 e_rec_len(disco[n], ds[i - 1]) + e_rec_len(disco[n], ds[i])
                            /\ \A c \in 1..tamanho_bloco :
                                 c \notin {ds[i - 1] + 5, ds[i - 1] + 6} =>
                                   r.fs.disco[n][c] = disco[n][c]
                            /\ deslocamentos(r.fs.disco[n], 0) = sem_o_elemento(ds, i)
                       ELSE /\ e_inode(r.fs.disco[n], 0) = 0
                            /\ e_rec_len(r.fs.disco[n], 0) = e_rec_len(disco[n], 0)
                            /\ \A c \in 5..tamanho_bloco :
                                 r.fs.disco[n][c] = disco[n][c]
                    /\ \A es \in {entradas_do_diretorio(FS, d)} :
                         \E j \in DOMAIN es :
                           /\ es[j].nome = nome
                           /\ \A y \in 1..(j - 1) : es[y].nome # nome
                           /\ entradas_do_diretorio(r.fs, d) = sem_o_elemento(es, j)
                    /\ \A outro \in NOMES_A_REMOVER \ {nome} :
                         procurar_entrada_no_diretorio(r.fs, d, outro) =
                           procurar_entrada_no_diretorio(FS, d, outro)

\* rm a/b has just removed b, the first record of a block of the
\* single-indirect block of a: the record is still there with its name and
\* its rec_len, the whole block, and its inode field is 0; "." and ".." of a
\* are found as before
C24_Testemunha ==
  /\ ult.op = "rm"
  /\ ult.msg = "ok"
  /\ inodes[INODE_DE_A].block[12] # 0
  /\ procurar_entrada_no_diretorio(FS, INODE_DE_A, NOME_B) = 0
  /\ procurar_entrada_no_diretorio(FS, INODE_DE_A, STR_PONTO) = INODE_DE_A
  /\ procurar_entrada_no_diretorio(FS, INODE_DE_A, STR_PONTO_PONTO) = EXT2_ROOT_INO
  /\ \E k \in DOMAIN slots_do_diretorio(FS, inodes[INODE_DE_A]) :
       \E n \in {slots_do_diretorio(FS, inodes[INODE_DE_A])[k]} :
         /\ k > NUM_DIRETOS
         /\ n # 0
         /\ e_inode(disco[n], 0) = 0
         /\ e_name(disco[n], 0) = NOME_B
         /\ e_rec_len(disco[n], 0) = tamanho_bloco

\* C25: rename of a name that the current directory holds fails, and leaves
\* every block and every inode as it was, when the new name is longer than
\* 255 bytes, contains '/', is already a name of the directory, or needs a
\* record (8 + length, rounded up to 4) larger than the rec_len of the entry
\* to rename; the entry is never moved to another place.  In every other
\* case the rename is done.  (Of the four cases the first cannot arise from
\* the shell, whose line buffer is shorter than such a name.)
C25_RenameRecusa ==
  \A d \in diretorios_existentes(FS) :
    \A slots \in {slots_do_diretorio(FS, inodes[d])} :
      \A antigo \in {x \in NOMES_ANTIGOS : lugares_com_nome(FS, slots, x) # {}} :
        \A novo \in NOMES_NOVOS :
          \A r \in {comando_rename(FS, d, antigo \o <<CH_ESPACO>> \o novo)} :
            IF \/ Len(novo) > EXT2_NAME_LEN
               \/ \E i \in 1..Len(novo) : novo[i] = CH_BARRA
               \/ lugares_com_nome(FS, slots, novo) # {}
               \/ pegada(Len(novo)) > rec_len_do_nome(FS, slots, antigo)
            THEN r.msg # "ok" /\ r.fs = FS
            ELSE r.msg = "ok" /\ r.fs # FS

\* rename a abcde has just failed: a is a name of the current directory,
\* abcde is not, and the record of a is 12 bytes long where abcde needs 16;
\* nothing was written
C25_Testemunha ==
  /\ ult.op = "rename"
  /\ ult.arg = <<97, 32>> \o NOME_ABCDE
  /\ ult.msg = "novo nome nao cabe"
  /\ ~ult.mudou
  /\ procurar_entrada_no_diretorio(FS, dir_atual, NOME_A) # 0
  /\ procurar_entrada_no_diretorio(FS, dir_atual, NOME_ABCDE) = 0
  /\ rec_len_do_nome(FS, slots_do_diretorio(FS, inodes[dir_atual]), NOME_A) = pegada(1)

\* C26: when no block of the directory has room for the entry and every slot
\* of its pointer tree is taken (direct, single-indirect, every L2 block under
\* a full L1 block), adicionar_entrada_diretorio returns -1, the block it had
\* allocated for the entry is free again (bitmaps and counts as before), and
\* the size and blocks of the parent are unchanged.
C26_DiretorioCheio ==
  \A d \in diretorios_existentes(FS) :
    \A slots \in {slots_do_diretorio(FS, inodes[d])} :
      \A nome \in NOMES_A_INSERIR :
        (arvore_cheia(FS, inodes[d]) /\ lugares_com_folga(FS, slots, nome) = {}) =>
          \A r \in {adicionar_entrada_diretorio(FS, inodes[d], d, INODES_COUNT, nome,
                                                EXT2_FT_REG_FILE)} :
            /\ r.ret = -1
            /\ r.inode_pai.size = inodes[d].size
            /\ r.inode_pai.blocks = inodes[d].blocks
            /\ bitmaps_iguais(r.fs, FS)
            /\ contadores_iguais(r.fs, FS)

\* C27: in ler_conteudo_arquivo a zero pointer ends the stream: when the
\* first zero pointer in logical order is direct slot z, nothing that lies at
\* a later logical position (a later direct slot, a block under an indirect
\* block) is copied, so that a successful read returns at most the z blocks
\* before the zero pointer.
C27_ZeroEncerra ==
  \A z \in {primeiro_zero_direto(inodes[INODE_ARQUIVO])} :
    \A r \in {ler_conteudo_arquivo(FS, inodes[INODE_ARQUIVO])} :
      (z < NUM_DIRETOS /\ r.status = 0) => Len(r.buffer) <= z * tamanho_bloco

\* C28: in touch and in mkdir the record of the new inode is written to the
\* inode table before the entry that names it is written into the parent: in
\* no volume between two writes of a touch or mkdir that succeeds does the
\* parent hold a live entry for the new inode while the command has not yet
\* written the record of that inode.  (Stated for a parent that is in use,
\* with every block of its tree in use, and that is not the inode about to
\* be allocated.)
C28_InodeAntesDaEntrada ==
  \A argumentos \in CAMINHOS \ {<<>>} :
    \A pai \in {caminho_para_inode(FS, dir_atual, dirname(argumentos))} :
      \A novo \in {alocar_inode(FS).ret} :
        (/\ pai # 0
         /\ pai # novo
         /\ inode_em_uso(FS, pai)
         /\ \A b \in arvore_de_blocos(FS, inodes[pai]) : bloco_em_uso(FS, b)) =>
          /\ \A r \in {comando_touch(FS, dir_atual, argumentos)} :
               \A es \in {etapas_do_touch(FS, dir_atual, argumentos)} :
                 /\ es # <<>> => ultima(es) = r.fs
                 /\ r.msg = "ok" =>
                      \A k \in DOMAIN es :
                        ~entrada_sem_inode(es, FS, k, pai, basename(argumentos), novo)
          /\ \A r \in {comando_mkdir(FS, dir_atual, argumentos)} :
               \A es \in {etapas_do_mkdir(FS, dir_atual, argumentos)} :
                 /\ es # <<>> => ultima(es) = r.fs
                 /\ r.msg = "ok" =>
                      \A k \in DOMAIN es :
                        ~entrada_sem_inode(es, FS, k, pai, basename(argumentos), novo)

C30_BitmapSuperblocoDescritor ==
  /\ bitmap_sb_gd(etapas_alocar_inode(FS), FS, alocar_inode(FS).fs)
  /\ \A inode_num \in INODES_A_LIBERAR :
       bitmap_sb_gd(etapas_liberar_inode(FS, inode_num), FS, liberar_inode(FS, inode_num).fs)
  /\ \A inode_num \in INODES_DONOS :
       bitmap_sb_gd(etapas_alocar_bloco(FS, inode_num), FS, alocar_bloco(FS, inode_num).fs)
  /\ \A num_bloco \in BLOCOS_A_LIBERAR :
       bitmap_sb_gd(etapas_liberar_bloco(FS, num_bloco), FS, liberar_bloco(FS, num_bloco).fs)

\* alocar_bloco has just returned a block, which liberar_bloco can release,
\* and both alocar_inode and alocar_bloco can allocate again
C30_Testemunha ==
  /\ ult.op = "alocar_bloco"
  /\ ult.ret # 0
  /\ ult.mudou
  /\ ult.ret \in BLOCOS_A_LIBERAR
  /\ Len(etapas_liberar_bloco(FS, ult.ret)) = 3
  /\ Len(etapas_alocar_inode(FS)) = 3
  /\ \E inode_num \in INODES_DONOS : Len(etapas_alocar_bloco(FS, inode_num)) = 3
  /\ \E inode_num \in INODES_A_LIBERAR : Len(etapas_liberar_inode(FS, inode_num)) = 3

\* C31: when the write of the modified bitmap block fails, alocar_inode and
\* alocar_bloco alike return 0 and leave the free counts of the superblock
\* and of the group descriptors as they were.
C31_FalhaAoGravarBitmap ==
  \A fs \in {com_bitmaps_no_bloco_zero(FS)} :
    /\ \A r \in {alocar_inode(fs)} :
         r.ret = 0 /\ r.fs.sb = fs.sb /\ r.fs.gdt = fs.gdt
    /\ \A inode_num \in INODES_DONOS :
         \A r \in {alocar_bloco(fs, inode_num)} :
           r.ret = 0 /\ r.fs.sb = fs.sb /\ r.fs.gdt = fs.gdt

\* C32: after any sequence of mkdir, rmdir, touch, rm and rename, the
\* links_count of every existing directory is 2 plus the number of its child
\* subdirectories.
C32_LinksDeDiretorio ==
  \A n \in diretorios_existentes(FS) :
    \A es \in {entradas_do_diretorio(FS, n)} :
      inodes[n].links_count = 2 + Cardinality(subdiretorios(FS, es))

\* C33: after any sequence of touch, mkdir, rm, rmdir and rename no existing
\* directory has a hole: its non-zero pointers form a prefix of the direct
\* slots and of every pointer block; and ls, which stops at the first zero
\* pointer, prints exactly the live names that
\* procurar_entrada_no_diretorio, which skips zero pointers, finds.
C33_SemBuracos ==
  \A n \in diretorios_existentes(FS) :
    /\ sem_buracos(FS, inodes[n])
    /\ \A es \in {entradas_do_diretorio(FS, n)} :
         conjunto_de_nomes(comando_ls(FS, n))
           = {nome \in conjunto_de_nomes(es) : procurar_entrada_no_diretorio(FS, n, nome) # 0}

\* a touch has just attached a block to the directory a, which now has more
\* than the direct blocks, and ls of a prints the new name
C33_Testemunha ==
  /\ ult.op = "touch"
  /\ ult.arg = <<97, 47, 98>>
  /\ ult.msg = "ok"
  /\ inodes[INODE_DE_A].block[12] # 0
  /\ inodes[INODE_DE_A].size > par.antes.fs.inodes[INODE_DE_A].size
  /\ NOME_B \in conjunto_de_nomes(comando_ls(FS, INODE_DE_A))
  /\ Len(comando_ls(FS, INODE_DE_A)) >= 3

\* C34: after any sequence of touch, mkdir, rm, rmdir and rename, every live
\* entry of every directory reachable from the root names an inode of the
\* volume whose bit in the inode bitmap is set.
C34_EntradasNomeiamInodesEmUso ==
  \A n \in nomeados_por(FS, diretorios_alcancaveis(FS)) :
    ler_inode_ok(FS, n) /\ inode_em_uso(FS, n)

\* C35: after any sequence of commands every block that a live inode refers
\* to (data block or pointer block) lies in the volume and is marked in use
\* in the block bitmap of its group, no block is referred to from two places,
\* and alocar_bloco returns no block that a live inode refers to.
C35_BlocosReferidosEmUso ==
  /\ \A n \in inodes_vivos(FS) :
       \A ps \in {referencias(FS, inodes[n])} :
         /\ \A b \in referidos(ps) :
              /\ b >= sb.first_data_block /\ b < sb.blocks_count
              /\ bloco_em_uso(FS, b)
         /\ sem_repeticao(ps)
         /\ \A m \in inodes_vivos(FS) \ {n} :
              referidos(ps) \cap referidos(referencias(FS, inodes[m])) = {}
         /\ \A dono \in inodes_vivos(FS) :
              alocar_bloco(FS, dono).ret \notin referidos(ps)

\* C36: after any sequence of touch, mkdir, rm, rmdir and rename no existing
\* directory holds two live entries with the same name.
C36_NomesUnicos ==
  \A n \in diretorios_existentes(FS) :
    \A es \in {entradas_do_diretorio(FS, n)} :
      \A i, j \in DOMAIN es : i # j => es[i].nome # es[j].nome

\* C37: every block number other than 0 that alocar_bloco returns lies in
\* first_data_block .. blocks_count - 1, also when it comes from a last group
\* shorter than blocks_per_group (whose bits beyond the end of the volume are
\* set, as mkfs leaves them); escrever_bloco accepts the block and
\* liberar_bloco releases it.
C37_BlocoDentroDoVolume ==
  \A inode_num \in INODES_DONOS :
    \A r \in {alocar_bloco(FS, inode_num)} :
      r.ret # 0 =>
        /\ sb.first_data_block <= r.ret
        /\ r.ret < sb.blocks_count
        /\ escrever_bloco_ok(r.fs, r.ret)
        /\ bloco_em_uso(r.fs, r.ret)
        /\ \A l \in {liberar_bloco(r.fs, r.ret)} :
             l.ret = 0 /\ ~bloco_em_uso(l.fs, r.ret)

\* alocar_bloco has just returned the last block of the volume, which lies
\* in a last group shorter than blocks_per_group
C37_Testemunha ==
  /\ ult.op = "alocar_bloco"
  /\ ult.ret = sb.blocks_count - 1
  /\ ultimo_grupo_curto(FS)
  /\ grupo_do_bloco(FS, ult.ret) = num_grupos(FS) - 1
  /\ bloco_em_uso(FS, ult.ret)

\* C38: a successful rmdir releases every block of the tree of the removed
\* directory, data blocks and pointer blocks: none of them is marked in use
\* afterwards, and the free-block count of the superblock rises by their
\* number, which is what mkdir and the later insertions took.
C38_RmdirLiberaTudo ==
  \A argumentos \in CAMINHOS \ {<<>>} :
    \A nome \in basename_apos_dirname(argumentos) :
      \A r \in {comando_rmdir(FS, dir_atual, argumentos, nome)} :
        r.msg = "ok" =>
          \A blocos \in {arvore_de_blocos(FS, inodes[caminho_para_inode(FS, dir_atual, argumentos)])} :
            /\ \A b \in blocos : ~bloco_em_uso(r.fs, b)
            /\ r.fs.sb.free_blocks_count = sb.free_blocks_count + Cardinality(blocos)

\* C39: no touch and no mkdir, whatever the path, inserts an entry whose
\* name is empty or contains "/": no existing directory ever holds one, and
\* the argument "/" makes both commands leave the volume as it was.
C39_SemNomeInvalido ==
  /\ ~ha_nome_invalido(FS)
  /\ \A argumentos \in CAMINHOS \ {<<>>} :
       /\ ~ha_nome_invalido(comando_touch(FS, dir_atual, argumentos).fs)
       /\ ~ha_nome_invalido(comando_mkdir(FS, dir_atual, argumentos).fs)
  /\ comando_touch(FS, dir_atual, STR_BARRA).fs = FS
  /\ comando_mkdir(FS, dir_atual, STR_BARRA).fs = FS

====
